---------------------------- MODULE Spec2Model ----------------------------
(***************************************************************************)
(* A model of the tool execution pipeline of modules/utils.py              *)
(* (class ToolExecutionPipeline and the conversation driver                *)
(* handle_query_with_iterative_tools).                                     *)
(*                                                                         *)
(* Text is modelled as a sequence of lexical tokens: the fence (three      *)
(* backquotes), the                                                        *)
(* marker keyword in lower case and in another letter case, one blank,     *)
(* a piece of prose, and the source text of a Python snippet.  The regular *)
(* expressions of the code are computed on these token sequences.  A       *)
(* snippet has the syntax tree that ast.parse builds for it.               *)
(* Wall-clock durations (execution_time) are left out of the outcome       *)
(* records: no branch of the code reads them.                              *)
(***************************************************************************)
EXTENDS Integers, Sequences, FiniteSets, TLC

(***************************************************************************)
(* Lexical tokens of a model response.                                     *)
(***************************************************************************)
FENCE == "<triple-backquote>"
KW_LOWER == "tool_code"
KW_UPPER == "TOOL_CODE"
BLANK == " "
PROSE == "Done, Sir."

(***************************************************************************)
(* Syntax trees (the node classes of the ast module of Python).            *)
(***************************************************************************)
NoneValue == "None"

Constant(v) == [t |-> "Constant", value |-> v]
Name(id) == [t |-> "Name", id |-> id]
Attribute(value, attr) == [t |-> "Attribute", value |-> value, attr |-> attr]
Call(func, args, keywords) ==
    [t |-> "Call", func |-> func, args |-> args, keywords |-> keywords]
keyword(arg, value) == [t |-> "keyword", arg |-> arg, value |-> value]
Dict(values) == [t |-> "Dict", values |-> values]
List(elts) == [t |-> "List", elts |-> elts]
Starred(value) == [t |-> "Starred", value |-> value]
Lambda(body) == [t |-> "Lambda", body |-> body]
Expr(value) == [t |-> "Expr", value |-> value]
Assign(target, value) == [t |-> "Assign", target |-> target, value |-> value]
Module(body) == [t |-> "Module", body |-> body]
SyntaxErrorTree == [t |-> "SyntaxError"]

(***************************************************************************)
(* The snippets the provider may write inside a fenced block, with the     *)
(* tree ast.parse(code, mode="exec") builds for each.                      *)
(***************************************************************************)
SourceAst ==
    [code \in {} |-> SyntaxErrorTree]
    @@ ("get_current_time()" :>
           Module(<<Expr(Call(Name("get_current_time"), <<>>, <<>>))>>))
    @@ ("get_weather('Paris')" :>
           Module(<<Expr(Call(Name("get_weather"), <<Constant("Paris")>>, <<>>))>>))
    @@ ("get_weather(city='Paris')" :>
           Module(<<Expr(Call(Name("get_weather"), <<>>,
                              <<keyword("city", Constant("Paris"))>>))>>))
    @@ ("get_news(['tech'])" :>
           Module(<<Expr(Call(Name("get_news"), <<List(<<Constant("tech")>>)>>, <<>>))>>))
    @@ ("get_cpu_usage()" :>
           Module(<<Expr(Call(Name("get_cpu_usage"), <<>>, <<>>))>>))
    @@ ("evil()" :>
           Module(<<Expr(Call(Name("evil"), <<>>, <<>>))>>))
    @@ ("os.system('rm -rf /')" :>
           Module(<<Expr(Call(Attribute(Name("os"), "system"),
                              <<Constant("rm -rf /")>>, <<>>))>>))
    @@ ("(lambda: 1)()" :>
           Module(<<Expr(Call(Lambda(Constant(1)), <<>>, <<>>))>>))
    @@ ("add_reminder(x, 'call mom')" :>
           Module(<<Expr(Call(Name("add_reminder"),
                              <<Name("x"), Constant("call mom")>>, <<>>))>>))
    @@ ("get_weather(city=x)" :>
           Module(<<Expr(Call(Name("get_weather"), <<>>,
                              <<keyword("city", Name("x"))>>))>>))
    @@ ("get_weather(os.name)" :>
           Module(<<Expr(Call(Name("get_weather"),
                              <<Attribute(Name("os"), "name")>>, <<>>))>>))
    @@ ("get_weather(get_current_city())" :>
           Module(<<Expr(Call(Name("get_weather"),
                              <<Call(Name("get_current_city"), <<>>, <<>>)>>, <<>>))>>))
    @@ ("get_weather(input())" :>
           Module(<<Expr(Call(Name("get_weather"),
                              <<Call(Name("input"), <<>>, <<>>)>>, <<>>))>>))
    @@ ("get_weather(os.getcwd())" :>
           Module(<<Expr(Call(Name("get_weather"),
                              <<Call(Attribute(Name("os"), "getcwd"), <<>>, <<>>)>>,
                              <<>>))>>))
    @@ ("get_weather(set())" :>
           Module(<<Expr(Call(Name("get_weather"),
                              <<Call(Name("set"), <<>>, <<>>)>>, <<>>))>>))
    @@ ("get_weather(*['Paris'])" :>
           Module(<<Expr(Call(Name("get_weather"),
                              <<Starred(List(<<Constant("Paris")>>))>>, <<>>))>>))
    @@ ("get_weather(**{'city': 'Paris'})" :>
           Module(<<Expr(Call(Name("get_weather"), <<>>,
                              <<keyword(NoneValue, Dict(<<Constant("Paris")>>))>>))>>))
    @@ ("get_weather(**d, city=x)" :>
           Module(<<Expr(Call(Name("get_weather"), <<>>,
                              <<keyword(NoneValue, Name("d")),
                                keyword("city", Name("x"))>>))>>))
    @@ ("get_current_time(); get_current_date()" :>
           Module(<<Expr(Call(Name("get_current_time"), <<>>, <<>>)),
                    Expr(Call(Name("get_current_date"), <<>>, <<>>))>>))
    @@ ("get_current_time(); os.system('x')" :>
           Module(<<Expr(Call(Name("get_current_time"), <<>>, <<>>)),
                    Expr(Call(Attribute(Name("os"), "system"),
                              <<Constant("x")>>, <<>>))>>))
    @@ ("t = get_current_time()" :>
           Module(<<Assign(Name("t"), Call(Name("get_current_time"), <<>>, <<>>))>>))
    @@ ("evil(os.getcwd())" :>
           Module(<<Expr(Call(Name("evil"),
                              <<Call(Attribute(Name("os"), "getcwd"), <<>>, <<>>)>>,
                              <<>>))>>))
    @@ ("set()" :> Module(<<Expr(Call(Name("set"), <<>>, <<>>))>>))
    @@ ("42" :> Module(<<Expr(Constant(42))>>))
    @@ ("get_current_time(" :> SyntaxErrorTree)
    @@ (KW_LOWER :> Module(<<Expr(Name("tool_code"))>>))
    @@ (KW_UPPER :> Module(<<Expr(Name("TOOL_CODE"))>>))

Snippets == DOMAIN SourceAst \ {KW_LOWER, KW_UPPER}

(***************************************************************************)
(* ast.parse(code, mode="exec") of an extracted block body.  A body is the *)
(* token sequence between the marker and the closing fence, trimmed: one   *)
(* snippet token parses to its tree; the marker keyword alone is a Python  *)
(* name; anything else (prose, several tokens set side by side, a stray    *)
(* fence) is not Python and raises SyntaxError.  The empty string parses   *)
(* to a module with no statement.                                          *)
(***************************************************************************)
ast_parse(code) ==
    IF code = <<>> THEN Module(<<>>)
    ELSE IF Len(code) = 1 /\ code[1] \in DOMAIN SourceAst
    THEN SourceAst[code[1]]
    ELSE SyntaxErrorTree

(***************************************************************************)
(* ast.iter_child_nodes: the child nodes of a node, in field order.        *)
(***************************************************************************)
iter_child_nodes(node) ==
    CASE node.t = "Module" -> node.body
      [] node.t = "Expr" -> <<node.value>>
      [] node.t = "Assign" -> <<node.target, node.value>>
      [] node.t = "Call" -> <<node.func>> \o node.args \o node.keywords
      [] node.t = "keyword" -> <<node.value>>
      [] node.t = "Attribute" -> <<node.value>>
      [] node.t = "Starred" -> <<node.value>>
      [] node.t = "Lambda" -> <<node.body>>
      [] node.t = "List" -> node.elts
      [] node.t = "Dict" -> node.values
      [] OTHER -> <<>>

(***************************************************************************)
(* A walk that stops at the statements and their expressions, without      *)
(* descending into the arguments of a call.                                *)
(***************************************************************************)
ast_walk_shallow(tree) ==
    IF tree.t # "Module" THEN <<tree>>
    ELSE <<tree>> \o tree.body \o [i \in 1..Len(tree.body) |-> tree.body[i].value]

(***************************************************************************)
(* ast.walk: every node of the tree, breadth first.                        *)
(***************************************************************************)
RECURSIVE walk_from(_)
walk_from(todo) ==
    IF todo = <<>> THEN <<>>
    ELSE <<Head(todo)>> \o walk_from(Tail(todo) \o iter_child_nodes(Head(todo)))

ast_walk(tree) == walk_from(<<tree>>)

(***************************************************************************)
(* self.allowed_tools (a part of the registry: the names the snippets      *)
(* use), and the allow-listed names that module utils defines or imports,  *)
(* which is what globals() holds when execute_tool_call looks a tool up.   *)
(* get_cpu_usage is allow-listed and defined nowhere.  allowed_tools is    *)
(* the set __init__ builds; self_allowed_tools is the attribute, which the *)
(* validator and the parser read at each call.                             *)
(***************************************************************************)
allowed_tools ==
    {"get_weather", "get_news", "get_current_city", "get_current_date",
     "get_current_time", "add_reminder", "get_cpu_usage"}

VARIABLE self_allowed_tools

module_globals == allowed_tools \ {"get_cpu_usage"}

(***************************************************************************)
(* The verdicts of validate_tool_call.                                     *)
(***************************************************************************)
NoVerdict == [valid |-> FALSE, reason |-> NoneValue, name |-> NoneValue]
Valid == [valid |-> TRUE, reason |-> "Valid", name |-> NoneValue]
NotAllowed(func_name) ==
    [valid |-> FALSE, reason |-> "Function is not an allowed tool", name |-> func_name]
OnlyDirect ==
    [valid |-> FALSE,
     reason |-> "Only direct function calls (simple names) are allowed in tool_code blocks.",
     name |-> NoneValue]
InvalidSyntax ==
    [valid |-> FALSE, reason |-> "Invalid code syntax", name |-> NoneValue]

(***************************************************************************)
(* The loop of validate_tool_call over ast.walk(tree): the first call node *)
(* that is not a direct call of an allowed name decides.                   *)
(***************************************************************************)
RECURSIVE scan_calls(_)
scan_calls(nodes) ==
    IF nodes = <<>> THEN Valid
    ELSE LET node == Head(nodes) IN
         IF node.t = "Call"
         THEN IF node.func.t = "Name"
              THEN IF node.func.id \notin self_allowed_tools
                   THEN NotAllowed(node.func.id)
                   ELSE scan_calls(Tail(nodes))
              ELSE OnlyDirect
         ELSE scan_calls(Tail(nodes))

(***************************************************************************)
(* validate_tool_call on a cache miss.                                     *)
(***************************************************************************)
validate_uncached(code) ==
    LET tree == ast_parse(code) IN
    IF tree.t = "SyntaxError" THEN InvalidSyntax
    ELSE scan_calls(ast_walk(tree))

(***************************************************************************)
(* ast.literal_eval on a node: constants, containers of literals and, as   *)
(* its one call form, the empty-set constructor set() evaluate; a name, an *)
(* attribute, any other call, a starred or a lambda raise ValueError.      *)
(***************************************************************************)
RECURSIVE is_literal(_)
is_literal(node) ==
    CASE node.t = "Constant" -> TRUE
      [] node.t = "List" -> \A i \in 1..Len(node.elts) : is_literal(node.elts[i])
      [] node.t = "Dict" -> \A i \in 1..Len(node.values) : is_literal(node.values[i])
      [] node.t = "Call" ->
            /\ node.func.t = "Name"
            /\ node.func.id = "set"
            /\ node.args = <<>>
            /\ node.keywords = <<>>
      [] OTHER -> FALSE

RECURSIVE literal_eval(_)
literal_eval(node) ==
    CASE node.t = "Constant" -> node.value
      [] node.t = "List" -> [i \in 1..Len(node.elts) |-> literal_eval(node.elts[i])]
      [] node.t = "Dict" ->
            [k \in {"dict"} |-> [i \in 1..Len(node.values) |-> literal_eval(node.values[i])]]
      [] OTHER -> [k \in {"set"} |-> <<>>]

(***************************************************************************)
(* The results of _parse_tool_call: the parsed call, or the ValueError it  *)
(* raises.                                                                 *)
(***************************************************************************)
Parsed(func_name, args, kwargs) ==
    [ok |-> TRUE, name |-> func_name, args |-> args, kwargs |-> kwargs, error |-> NoneValue]
ValueError(msg) ==
    [ok |-> FALSE, name |-> NoneValue, args |-> <<>>, kwargs |-> <<>>, error |-> msg]

ErrSyntax == "SyntaxError during parse"
ErrOneExpr == "Tool block must contain exactly one expression (one function call)."
ErrNotCall == "Tool block must be a function call."
ErrAttr == "Only direct function calls (no attribute access) are allowed."
ErrNotInAllowed == "Tool is not in allowed_tools."
ErrPositional == "Unsupported non-literal positional argument"
ErrUnpack == "**kwargs (unpacking) is not supported in tool calls."
ErrKeyword == "Unsupported non-literal keyword argument"

(***************************************************************************)
(* The keyword loop of _parse_tool_call: keywords in order, the first      *)
(* unpacking or non-literal value raises.                                  *)
(***************************************************************************)
RECURSIVE keyword_error(_)
keyword_error(keywords) ==
    IF keywords = <<>> THEN NoneValue
    ELSE LET kw == Head(keywords) IN
         IF kw.arg = NoneValue THEN ErrUnpack
         ELSE IF ~is_literal(kw.value) THEN ErrKeyword
         ELSE keyword_error(Tail(keywords))

(***************************************************************************)
(* A parse that takes the first statement and ignores the others.          *)
(***************************************************************************)
parse_first_statement(code) ==
    LET node == ast_parse(code) IN
    IF node.t = "SyntaxError" THEN ValueError(ErrSyntax)
    ELSE IF Len(node.body) < 1 \/ node.body[1].t # "Expr" THEN ValueError(ErrOneExpr)
    ELSE LET call_node == node.body[1].value IN
         IF call_node.t # "Call" THEN ValueError(ErrNotCall)
         ELSE IF call_node.func.t # "Name" THEN ValueError(ErrAttr)
         ELSE IF call_node.func.id \notin self_allowed_tools THEN ValueError(ErrNotInAllowed)
         ELSE IF \E i \in 1..Len(call_node.args) : ~is_literal(call_node.args[i])
              THEN ValueError(ErrPositional)
         ELSE IF keyword_error(call_node.keywords) # NoneValue
              THEN ValueError(keyword_error(call_node.keywords))
         ELSE Parsed(call_node.func.id,
                     [i \in 1..Len(call_node.args) |-> literal_eval(call_node.args[i])],
                     [i \in 1..Len(call_node.keywords) |->
                         <<call_node.keywords[i].arg,
                           literal_eval(call_node.keywords[i].value)>>])

(***************************************************************************)
(* _parse_tool_call on a cache miss.                                       *)
(***************************************************************************)
parse_uncached(code) ==
    LET node == ast_parse(code) IN
    IF node.t = "SyntaxError" THEN ValueError(ErrSyntax)
    ELSE IF Len(node.body) # 1 \/ node.body[1].t # "Expr" THEN ValueError(ErrOneExpr)
    ELSE LET call_node == node.body[1].value IN
         IF call_node.t # "Call" THEN ValueError(ErrNotCall)
         ELSE IF call_node.func.t # "Name" THEN ValueError(ErrAttr)
         ELSE IF call_node.func.id \notin self_allowed_tools THEN ValueError(ErrNotInAllowed)
         ELSE IF \E i \in 1..Len(call_node.args) : ~is_literal(call_node.args[i])
              THEN ValueError(ErrPositional)
         ELSE IF keyword_error(call_node.keywords) # NoneValue
              THEN ValueError(keyword_error(call_node.keywords))
         ELSE Parsed(call_node.func.id,
                     [i \in 1..Len(call_node.args) |-> literal_eval(call_node.args[i])],
                     [i \in 1..Len(call_node.keywords) |->
                         <<call_node.keywords[i].arg,
                           literal_eval(call_node.keywords[i].value)>>])

(***************************************************************************)
(* str.strip() on a token sequence: blanks at both ends are dropped.       *)
(***************************************************************************)
RECURSIVE lstrip(_)
lstrip(text) ==
    IF text # <<>> /\ Head(text) = BLANK THEN lstrip(Tail(text)) ELSE text

RECURSIVE rstrip(_)
rstrip(text) ==
    IF text # <<>> /\ text[Len(text)] = BLANK
    THEN rstrip(SubSeq(text, 1, Len(text) - 1))
    ELSE text

strip(text) == rstrip(lstrip(text))

(***************************************************************************)
(* The position of the first fence at or after position i, 0 if none.      *)
(***************************************************************************)
next_fence(text, i) ==
    IF \E j \in i..Len(text) : text[j] = FENCE
    THEN CHOOSE j \in i..Len(text) :
            /\ text[j] = FENCE
            /\ \A k \in i..(j - 1) : text[k] # FENCE
    ELSE 0

(***************************************************************************)
(* self._tool_pattern.findall(text): the pattern is the fence, the marker  *)
(* keyword in any letter case (re.IGNORECASE), blanks, a lazy body         *)
(* (re.DOTALL), blanks and the next fence; matches do not overlap.         *)
(***************************************************************************)
RECURSIVE findall_from(_, _)
findall_from(text, i) ==
    IF i > Len(text) THEN <<>>
    ELSE IF /\ text[i] = FENCE
            /\ i + 1 <= Len(text)
            /\ text[i + 1] \in {KW_LOWER, KW_UPPER}
            /\ next_fence(text, i + 2) # 0
         THEN LET j == next_fence(text, i + 2) IN
              <<strip(SubSeq(text, i + 2, j - 1))>> \o findall_from(text, j + 1)
         ELSE findall_from(text, i + 1)

tool_pattern_findall(text) == findall_from(text, 1)

(***************************************************************************)
(* extract_tool_calls: the fast path tests for the lower-case keyword      *)
(* ("tool_code" not in text); empty bodies are dropped.                    *)
(***************************************************************************)
extract_tool_calls(text) ==
    IF text = <<>> \/ ~(\E i \in 1..Len(text) : text[i] = KW_LOWER)
    THEN <<>>
    ELSE SelectSeq(tool_pattern_findall(text), LAMBDA m : m # <<>> /\ strip(m) # <<>>)

(***************************************************************************)
(* re.sub(fence tool_code .*? fence, '', text, flags=re.DOTALL): the       *)
(* keyword is matched in lower case only.                                  *)
(***************************************************************************)
RECURSIVE sub_from(_, _)
sub_from(text, i) ==
    IF i > Len(text) THEN <<>>
    ELSE IF /\ text[i] = FENCE
            /\ i + 1 <= Len(text)
            /\ text[i + 1] = KW_LOWER
            /\ next_fence(text, i + 2) # 0
         THEN sub_from(text, next_fence(text, i + 2) + 1)
         ELSE <<text[i]>> \o sub_from(text, i + 1)

re_sub_tool_code(text) == sub_from(text, 1)

(***************************************************************************)
(* The fixed strings of the driver.                                        *)
(***************************************************************************)
DISCLAIMER == "I've completed the available tool operations. "
APOLOGY_EMPTY ==
    "I apologize, but I'm having trouble generating a response. Please try rephrasing your question."
APOLOGY_INCOMPLETE == "I apologize, but I couldn't complete the request."
PROVIDE_QUERY == "Please provide a query."
RECOVERY_PROMPT ==
    "The previous request failed to generate a response. Please provide a clear answer based on the available context and tool results."
FINAL_PROMPT == "Please provide a final answer based on the tool results above."

(***************************************************************************)
(* Bounds of the exploration.                                              *)
(***************************************************************************)
MaxCyclesParam == 2
MaxToolsParam == 2
MaxBlocks == 2

MaxThreads == 2
MaxAdds == 2
MaxTime == 180000
MaxMs == 1
Threads == 1..MaxThreads

(***************************************************************************)
(* State.  The fields of the ToolExecutionPipeline instance, the global    *)
(* conversation, the locals of handle_query_with_iterative_tools and of    *)
(* process_tool_cycle, the position of the driver (pc), the               *)
(* exception in flight (exc), the value the query returned, and two        *)
(* history variables: the tool callables invoked so far (with the cycle    *)
(* and the position of the candidate, and how the tool behaved) and the    *)
(* provider calls of the current query.  Then the locals of get_response   *)
(* (its position gr_pc, the online flag, the attempt, the delays slept,    *)
(* the value it returns, the outcomes of its attempts) and the pair        *)
(* validate_tool_call returned last.                                       *)
(***************************************************************************)
VARIABLES
    max_tool_cycles, max_tools_per_cycle, tool_execution_log,
    validation_cache, parse_cache, prebound_scope, cached_prompt,
    GLOBAL_CONVERSATION_HISTORY,
    pc, exc, tool_cycle_count, ai_response, final_response, returned,
    tool_calls, execution_results, has_errors,
    invoked, provider_calls,
    gr_pc, online, attempt, slept, gr_value, gr_events,
    validation

pipelineVars ==
    <<max_tool_cycles, max_tools_per_cycle, tool_execution_log,
      validation_cache, parse_cache, prebound_scope, cached_prompt,
      self_allowed_tools>>
cycleVars == <<tool_calls, execution_results, has_errors, validation>>
driverVars ==
    <<GLOBAL_CONVERSATION_HISTORY, tool_cycle_count, ai_response,
      final_response, returned, provider_calls>>
providerVars == <<gr_pc, online, attempt, slept, gr_value, gr_events>>

(***************************************************************************)
(* State outside the pipeline.  The three events of interrupt_handler.py,  *)
(* the position of handle_query around the pipeline call (hq_pc), the      *)
(* words of the answer written so far, and two history variables: the      *)
(* number of tool cycles finished when the user first pressed Space while  *)
(* the pipeline was working on the query (-1 before that) and whether the  *)
(* narration of the answer was started.                                    *)
(***************************************************************************)
VARIABLES
    tts_interrupt_event, interrupt_enabled, listening_active,
    hq_pc, written, pressed_at, narrated

interruptVars ==
    <<tts_interrupt_event, interrupt_enabled, listening_active,
      hq_pc, written, pressed_at, narrated>>

(***************************************************************************)
(* The TaskDaemon.  Its fields running, daemon_thread (0 for None), lock   *)
(* (0 when free, else the loop thread holding it), reminders and tasks;    *)
(* the position of each loop thread (threads) and of a caller inside       *)
(* stop() (stopping); the content of the persisted files; the clock in     *)
(* milliseconds (now).  An entry carries, besides the fields of the        *)
(* dictionary, the rank of the add call that made it (uid), which the      *)
(* program never reads.  History variables: the number of add calls, the   *)
(* uids handed to the due callbacks in order (fired_log), whether the      *)
(* last _save_state ran in a thread holding the lock and whether another   *)
(* thread held it then (last_save), and the loop threads a stop() that     *)
(* returned True has left behind alive (stopped).                          *)
(***************************************************************************)
VARIABLES
    running, daemon_thread, threads, lock, stopping, reminders, tasks,
    persisted, now, added, fired_log, last_save, stopped

daemonVars ==
    <<running, daemon_thread, threads, lock, stopping, reminders, tasks,
      persisted, now, added, fired_log, last_save, stopped>>
outerVars == <<interruptVars, daemonVars>>
vars ==
    <<pipelineVars, cycleVars, driverVars, pc, exc, invoked, providerVars,
      outerVars>>

(***************************************************************************)
(* ToolExecutionPipeline.__init__ and the module-level globals.            *)
(***************************************************************************)
PipelineInit ==
    /\ max_tool_cycles \in 0..MaxCyclesParam
    /\ max_tools_per_cycle \in 0..MaxToolsParam
    /\ tool_execution_log = <<>>
    /\ validation_cache = <<>>
    /\ parse_cache = <<>>
    /\ prebound_scope = NoneValue
    /\ cached_prompt = NoneValue
    /\ self_allowed_tools = allowed_tools
    /\ invoked = <<>>

(***************************************************************************)
(* The caches are dictionaries from code to result, kept as sequences of   *)
(* (code, result) pairs with distinct codes.                               *)
(***************************************************************************)
in_cache(cache, code) == \E i \in 1..Len(cache) : cache[i][1] = code
cache_get(cache, code) ==
    cache[CHOOSE i \in 1..Len(cache) : cache[i][1] = code][2]
cache_put(cache, code, res) ==
    IF in_cache(cache, code) THEN cache ELSE Append(cache, <<code, res>>)

(***************************************************************************)
(* validate_tool_call: the verdict, and the cache after the call.          *)
(***************************************************************************)
validate_recomputed(cache, code) == validate_uncached(code)

validate_tool_call(cache, code) ==
    IF in_cache(cache, code)
    THEN cache_get(cache, code)
    ELSE validate_uncached(code)

validation_cache_after(cache, code) ==
    cache_put(cache, code, validate_tool_call(cache, code))

(***************************************************************************)
(* _parse_tool_call: the result, and the cache after the call (only a      *)
(* successful parse is stored).                                            *)
(***************************************************************************)
parse_tool_call(cache, code) ==
    IF in_cache(cache, code)
    THEN cache_get(cache, code)
    ELSE parse_uncached(code)

parse_cache_after(cache, code) ==
    IF parse_tool_call(cache, code).ok
    THEN cache_put(cache, code, parse_tool_call(cache, code))
    ELSE cache

(***************************************************************************)
(* The outcome records of execute_tool_call and process_tool_cycle.        *)
(***************************************************************************)
Success(code, result) ==
    [success |-> TRUE, result |-> result, code |-> code, error |-> NoneValue]
Failure(code, prefix, detail) ==
    [success |-> FALSE, result |-> NoneValue, code |-> code,
     error |-> <<prefix, detail>>]

ERR_EXECUTING == "Error executing tool"
ERR_VALIDATION == "Validation failed"
ERR_NOT_IMPLEMENTED == "Tool is not implemented in the runtime environment."
ERR_TOOL_RAISED == "exception raised by the tool"

ToolBehaviours == {"returns", "raises"}
ToolResult(func_name) == <<"result of", func_name>>

(***************************************************************************)
(* The lookup of execute_tool_call: the prebound scope, else globals().    *)
(***************************************************************************)
lookup_callable(func_name) == func_name \in module_globals

(***************************************************************************)
(* execute_tool_call(code), the tool behaving as `behaviour`: whether the  *)
(* callable is invoked, and the outcome returned and logged.  Every        *)
(* exception (of the parse, of the lookup, of the tool) is caught.         *)
(***************************************************************************)
execute_invokes(pcache, code) ==
    /\ parse_tool_call(pcache, code).ok
    /\ lookup_callable(parse_tool_call(pcache, code).name)

(***************************************************************************)
(* What raises inside the try block of execute_tool_call: the parse        *)
(* (ValueError), the lookup (NameError) or the tool itself; and the        *)
(* handler, except Exception, which catches all three.                     *)
(***************************************************************************)
execute_raises(pcache, code, behaviour) ==
    IF ~parse_tool_call(pcache, code).ok THEN "ValueError"
    ELSE IF ~lookup_callable(parse_tool_call(pcache, code).name) THEN "NameError"
    ELSE IF behaviour = "raises" THEN "tool exception"
    ELSE NoneValue

except_own_errors_only(raised) == raised \in {"ValueError", "NameError"}

except_Exception(raised) == raised \in {"ValueError", "NameError", "tool exception"}

execute_outcome_unchecked(pcache, code, behaviour) ==
    LET parsed == parse_tool_call(pcache, code) IN
    IF ~parsed.ok THEN Failure(code, ERR_EXECUTING, parsed.error)
    ELSE Success(code, ToolResult(parsed.name))

execute_outcome(pcache, code, behaviour) ==
    LET parsed == parse_tool_call(pcache, code) IN
    IF ~parsed.ok THEN Failure(code, ERR_EXECUTING, parsed.error)
    ELSE IF ~lookup_callable(parsed.name)
         THEN Failure(code, ERR_EXECUTING, ERR_NOT_IMPLEMENTED)
    ELSE IF behaviour = "raises"
         THEN Failure(code, ERR_EXECUTING, ERR_TOOL_RAISED)
    ELSE Success(code, ToolResult(parsed.name))

Invocation(parsed, code, cycle, slot, behaviour) ==
    [name |-> parsed.name, args |-> parsed.args, kwargs |-> parsed.kwargs,
     code |-> code, cycle |-> cycle, slot |-> slot, behaviour |-> behaviour]

(***************************************************************************)
(* process_tool_cycle, first part: extract the candidates and cap them.    *)
(***************************************************************************)
uncapped(calls, cap) == calls

capped(calls, cap) == SubSeq(calls, 1, IF Len(calls) < cap THEN Len(calls) ELSE cap)

CycleStart ==
    /\ UNCHANGED providerVars
    /\ pc = "process"
    /\ tool_calls' = capped(extract_tool_calls(ai_response), max_tools_per_cycle)
    /\ execution_results' = <<>>
    /\ has_errors' = FALSE
    /\ pc' = IF tool_calls' = <<>> THEN "cycle_return" ELSE "cycle"
    /\ UNCHANGED <<outerVars, pipelineVars, driverVars, exc, invoked, validation>>

(***************************************************************************)
(* process_tool_cycle, one iteration of its loop: validate the candidate;  *)
(* an invalid one yields a failed outcome, a valid one is handed to        *)
(* execute_tool_call, which parses it, looks the callable up, invokes it   *)
(* and logs the outcome.                                                   *)
(***************************************************************************)
CycleStep(behaviour) ==
    /\ UNCHANGED providerVars
    /\ pc = "cycle"
    /\ LET i == Len(execution_results) + 1
           tool_call == tool_calls[i]
           verdict == validate_tool_call(validation_cache, tool_call)
           invokes == verdict.valid /\ execute_invokes(parse_cache, tool_call)
           raised == execute_raises(parse_cache, tool_call, behaviour)
           propagates == verdict.valid /\ raised # NoneValue /\ ~except_Exception(raised)
           result == IF ~verdict.valid
                     THEN Failure(tool_call, ERR_VALIDATION, <<verdict.reason, verdict.name>>)
                     ELSE execute_outcome(parse_cache, tool_call, behaviour)
       IN
       /\ invokes \/ behaviour = "returns"
       /\ validation' = verdict
       /\ validation_cache' = validation_cache_after(validation_cache, tool_call)
       /\ IF verdict.valid
          THEN /\ prebound_scope' = module_globals
               /\ parse_cache' = parse_cache_after(parse_cache, tool_call)
          ELSE UNCHANGED <<prebound_scope, parse_cache>>
       /\ invoked' = IF invokes
                     THEN Append(invoked,
                                 Invocation(parse_tool_call(parse_cache, tool_call),
                                            tool_call, tool_cycle_count, i, behaviour))
                     ELSE invoked
       /\ IF propagates
          THEN /\ exc' = raised
               /\ pc' = "raised"
               /\ UNCHANGED <<tool_execution_log, has_errors, execution_results>>
          ELSE /\ tool_execution_log' = IF verdict.valid
                                        THEN Append(tool_execution_log, result)
                                        ELSE tool_execution_log
               /\ has_errors' = (has_errors \/ ~result.success)
               /\ execution_results' = Append(execution_results, result)
               /\ pc' = IF i = Len(tool_calls) THEN "cycle_return" ELSE "cycle"
               /\ UNCHANGED exc
    /\ UNCHANGED <<outerVars, max_tool_cycles, max_tools_per_cycle, cached_prompt,
                   self_allowed_tools, tool_calls, driverVars>>

(***************************************************************************)
(* Conversation turns.  A content is a sequence of parts: the one string   *)
(* of a prompt or a query, the tokens of a reply, or the tag, the code,    *)
(* the label and the result or error of a tool message.                    *)
(***************************************************************************)
Turn(role, content) == [role |-> role, content |-> content]

TOOL_SUCCESS == "[TOOL-SUCCESS]"
TOOL_ERROR == "[TOOL-ERROR]"

tool_message_untagged(result) ==
    <<TOOL_SUCCESS, result.code, "Result:", result.result>>

tool_message(result) ==
    IF result.success
    THEN <<TOOL_SUCCESS, result.code, "Result:", result.result>>
    ELSE <<TOOL_ERROR, result.code, "Error:", result.error>>

tool_turns(results) ==
    [i \in 1..Len(results) |-> Turn("system", tool_message(results[i]))]

(***************************************************************************)
(* The context window: more than HISTORY_LIMIT turns are cut to the first  *)
(* turn and the last KEEP_LAST.                                            *)
(***************************************************************************)
HISTORY_LIMIT == 20
KEEP_LAST == 19

truncate(conversation) ==
    IF Len(conversation) > HISTORY_LIMIT
    THEN <<conversation[1]>>
         \o SubSeq(conversation, Len(conversation) - KEEP_LAST + 1, Len(conversation))
    ELSE conversation

(***************************************************************************)
(* create_system_prompt builds the prompt from the clock, the location and *)
(* the connectivity: one of Prompts.                                       *)
(***************************************************************************)
Prompts == {"system prompt"}
Queries == {"", "What time is it?"}

(***************************************************************************)
(* The INIT step of handle_query_with_iterative_tools: the system turn is  *)
(* created, inserted or replaced.                                          *)
(***************************************************************************)
with_system_prompt_inserted(history, prompt) ==
    IF history = <<>> THEN <<Turn("system", <<prompt>>)>>
    ELSE IF history[1] # Turn("system", <<prompt>>)
         THEN <<Turn("system", <<prompt>>)>> \o history
    ELSE history

with_system_prompt(history, prompt) ==
    IF history = <<>> THEN <<Turn("system", <<prompt>>)>>
    ELSE IF history[1].role # "system" THEN <<Turn("system", <<prompt>>)>> \o history
    ELSE IF history[1].content # <<prompt>>
         THEN [history EXCEPT ![1] = Turn("system", <<prompt>>)]
    ELSE history

(***************************************************************************)
(* handle_query_with_iterative_tools, up to the first provider call.       *)
(***************************************************************************)
HandleQueryWith(query, prompts) ==
    /\ UNCHANGED providerVars
    /\ pc = "idle"
    /\ IF query = ""
       THEN /\ returned' = <<PROVIDE_QUERY>>
            /\ pc' = "done"
            /\ UNCHANGED <<cached_prompt, GLOBAL_CONVERSATION_HISTORY,
                           tool_cycle_count, final_response, provider_calls>>
       ELSE /\ \E expired \in BOOLEAN, prompt \in prompts :
                 cached_prompt' = IF cached_prompt = NoneValue \/ expired
                                  THEN prompt ELSE cached_prompt
            /\ GLOBAL_CONVERSATION_HISTORY' =
                  Append(with_system_prompt(GLOBAL_CONVERSATION_HISTORY, cached_prompt'),
                         Turn("user", <<query>>))
            /\ tool_cycle_count' = 0
            /\ final_response' = <<>>
            /\ provider_calls' = 0
            /\ returned' = returned
            /\ pc' = IF 0 < max_tool_cycles THEN "await_model" ELSE "exhausted"
    /\ UNCHANGED <<max_tool_cycles, max_tools_per_cycle, tool_execution_log,
                   validation_cache, parse_cache, prebound_scope,
                   self_allowed_tools, cycleVars, ai_response, exc, invoked>>

HandleQuery(query) == HandleQueryWith(query, Prompts) /\ UNCHANGED outerVars

(***************************************************************************)
(* get_response at the head of the loop.  An empty reply appends the       *)
(* recovery instruction; any other reply is appended as the assistant turn *)
(* and handed to process_tool_cycle.                                       *)
(***************************************************************************)
never_empty(reply) == FALSE

is_empty_response(reply) == reply = <<>>

ReceiveReply(reply) ==
    /\ pc = "await_model"
    /\ provider_calls' = provider_calls + 1
    /\ IF is_empty_response(reply)
       THEN /\ GLOBAL_CONVERSATION_HISTORY' =
                  Append(GLOBAL_CONVERSATION_HISTORY, Turn("user", <<RECOVERY_PROMPT>>))
            /\ pc' = "retry"
            /\ UNCHANGED ai_response
       ELSE /\ GLOBAL_CONVERSATION_HISTORY' =
                  Append(GLOBAL_CONVERSATION_HISTORY, Turn("assistant", reply))
            /\ ai_response' = reply
            /\ pc' = "process"
    /\ UNCHANGED <<outerVars, pipelineVars, cycleVars, tool_cycle_count, final_response,
                   returned, exc, invoked>>

AwaitModel(reply) == ReceiveReply(reply) /\ UNCHANGED providerVars

(***************************************************************************)
(* The one retry after an empty reply.                                     *)
(***************************************************************************)
RetryReply(reply) ==
    /\ pc = "retry"
    /\ provider_calls' = provider_calls + 1
    /\ IF is_empty_response(reply)
       THEN /\ returned' = <<APOLOGY_EMPTY>>
            /\ pc' = "done"
            /\ UNCHANGED <<GLOBAL_CONVERSATION_HISTORY, ai_response>>
       ELSE /\ GLOBAL_CONVERSATION_HISTORY' =
                  Append(GLOBAL_CONVERSATION_HISTORY, Turn("assistant", reply))
            /\ ai_response' = reply
            /\ pc' = "process"
            /\ UNCHANGED returned
    /\ UNCHANGED <<outerVars, pipelineVars, cycleVars, tool_cycle_count, final_response,
                   exc, invoked>>

RetryModel(reply) == RetryReply(reply) /\ UNCHANGED providerVars

(***************************************************************************)
(* The return statement of the driver: final_response or the apology.     *)
(***************************************************************************)
stripped_or_apology(response) ==
    IF strip(re_sub_tool_code(response)) = <<>>
    THEN <<APOLOGY_INCOMPLETE>>
    ELSE strip(re_sub_tool_code(response))

response_unchecked(response) == response

final_or_apology(response) ==
    IF response = <<>> THEN <<APOLOGY_INCOMPLETE>> ELSE response

(***************************************************************************)
(* The test after a cycle: the budget of cycles is used up.                *)
(***************************************************************************)
budget_exceeded(count, max) == count > max

budget_exhausted(count, max) == count >= max

(***************************************************************************)
(* The driver after process_tool_cycle returned: no outcome means the      *)
(* reply is the final answer; otherwise one tool-result turn per outcome,  *)
(* the cycle count, the truncation, and on the last cycle the request for  *)
(* a final answer.                                                         *)
(***************************************************************************)
AfterCycle ==
    /\ UNCHANGED providerVars
    /\ pc = "cycle_return"
    /\ IF execution_results = <<>>
       THEN /\ final_response' = ai_response
            /\ returned' = final_or_apology(final_response')
            /\ pc' = "done"
            /\ UNCHANGED <<GLOBAL_CONVERSATION_HISTORY, tool_cycle_count>>
       ELSE LET appended == truncate(GLOBAL_CONVERSATION_HISTORY
                                     \o tool_turns(execution_results)) IN
            /\ tool_cycle_count' = tool_cycle_count + 1
            /\ IF budget_exhausted(tool_cycle_count', max_tool_cycles)
               THEN /\ GLOBAL_CONVERSATION_HISTORY' =
                          Append(appended, Turn("user", <<FINAL_PROMPT>>))
                    /\ pc' = "forced_final"
                    /\ UNCHANGED returned
               ELSE /\ GLOBAL_CONVERSATION_HISTORY' = appended
                    /\ IF tool_cycle_count' < max_tool_cycles
                       THEN pc' = "await_model" /\ UNCHANGED returned
                       ELSE pc' = "done" /\ returned' = final_or_apology(final_response)
            /\ UNCHANGED final_response
    /\ UNCHANGED <<outerVars, pipelineVars, cycleVars, ai_response, provider_calls, exc, invoked>>

(***************************************************************************)
(* The forced final answer: one more provider call; a reply from which     *)
(* extract_tool_calls still extracts something is scrubbed with re.sub and *)
(* prefixed with the disclaimer.                                           *)
(***************************************************************************)
scrubbed(reply) ==
    IF reply # <<>> /\ extract_tool_calls(reply) # <<>>
    THEN <<DISCLAIMER>> \o strip(re_sub_tool_code(reply))
    ELSE reply

FinalReply(reply) ==
    /\ pc = "forced_final"
    /\ provider_calls' = provider_calls + 1
    /\ final_response' = scrubbed(reply)
    /\ returned' = final_or_apology(final_response')
    /\ pc' = "done"
    /\ UNCHANGED <<outerVars, pipelineVars, cycleVars, GLOBAL_CONVERSATION_HISTORY,
                   tool_cycle_count, ai_response, exc, invoked>>

ForcedFinal(reply) == FinalReply(reply) /\ UNCHANGED providerVars

(***************************************************************************)
(* The loop is not entered at all when max_tool_cycles is 0.               *)
(***************************************************************************)
LoopSkipped ==
    /\ UNCHANGED providerVars
    /\ pc = "exhausted"
    /\ returned' = <<APOLOGY_INCOMPLETE>>
    /\ pc' = "done"
    /\ UNCHANGED <<outerVars, pipelineVars, cycleVars, GLOBAL_CONVERSATION_HISTORY,
                   tool_cycle_count, ai_response, final_response, provider_calls,
                   exc, invoked>>

(***************************************************************************)
(* get_response raises: its imports (google.genai, google.api_core, httpx) *)
(* stand before its try block, so a missing package raises ImportError     *)
(* into the driver.                                                        *)
(***************************************************************************)
IMPORT_ERROR == "No module named 'google.genai'"
PIPELINE_ERROR == "Pipeline error: "

ImportFails ==
    /\ pc \in {"await_model", "retry", "forced_final"}
    /\ gr_pc = "idle"
    /\ provider_calls' = provider_calls + 1
    /\ exc' = IMPORT_ERROR
    /\ pc' = "raised"
    /\ UNCHANGED <<outerVars, pipelineVars, cycleVars, GLOBAL_CONVERSATION_HISTORY,
                   tool_cycle_count, ai_response, final_response, returned, invoked>>

ProviderRaises == ImportFails /\ UNCHANGED providerVars

(***************************************************************************)
(* The handler of the driver, except Exception: the query returns the      *)
(* text of the exception behind a fixed prefix.                            *)
(***************************************************************************)
PipelineError ==
    /\ UNCHANGED providerVars
    /\ pc = "raised"
    /\ returned' = <<PIPELINE_ERROR, exc>>
    /\ exc' = NoneValue
    /\ pc' = "done"
    /\ UNCHANGED <<outerVars, pipelineVars, cycleVars, GLOBAL_CONVERSATION_HISTORY,
                   tool_cycle_count, ai_response, final_response, provider_calls,
                   invoked>>

(***************************************************************************)
(* A fenced block as the provider writes it: fence, marker, the body on    *)
(* its own line, fence.                                                    *)
(***************************************************************************)
Block(marker, body) == <<FENCE, marker, BLANK>> \o body \o <<BLANK, FENCE>>

(***************************************************************************)
(* The replies of the provider in the driver's specification.              *)
(***************************************************************************)
Replies ==
    { <<>>,
      <<PROSE>>,
      Block(KW_LOWER, <<"get_current_time()">>),
      Block(KW_LOWER, <<"add_reminder(x, 'call mom')">>)
          \o Block(KW_LOWER, <<"get_weather(os.name)">>),
      Block(KW_LOWER, <<"get_weather(get_current_city())">>)
          \o Block(KW_LOWER, <<"get_weather(set())">>),
      Block(KW_LOWER, <<"get_cpu_usage()">>)
          \o Block(KW_LOWER, <<"get_weather('Paris')">>),
      <<PROSE>> \o Block(KW_LOWER, <<"get_weather(**d, city=x)">>),
      Block(KW_LOWER, <<"get_current_time()">>)
          \o Block(KW_UPPER, <<"get_weather('Paris')">>),
      <<FENCE, KW_LOWER, BLANK, FENCE>> }

(***************************************************************************)
(* The responses handed to process_tool_cycle when it is called on its     *)
(* own: prose, or up to MaxBlocks blocks, each holding any snippet.        *)
(***************************************************************************)
RECURSIVE BlockTexts(_)
BlockTexts(n) ==
    IF n = 0 THEN {<<>>}
    ELSE {Block(KW_LOWER, <<code>>) \o rest :
             code \in Snippets, rest \in BlockTexts(n - 1)}

CycleResponses == {<<PROSE>>} \cup UNION {BlockTexts(n) : n \in 1..MaxBlocks}

(***************************************************************************)
(* get_response.  The caller asks for the hosted model (online) or the     *)
(* local one; without connectivity the call is forced offline; the hosted  *)
(* path needs the API key and tries generate_content up to max_retries     *)
(* times; a network error falls back to the local model; every other path  *)
(* returns a fixed message.  The text returned is stripped.                *)
(***************************************************************************)
NO_API_KEY == "Gemini API key not found. Please set GEMINI_API_KEY in environment."
NO_RESPONSE ==
    "I apologize, but I couldn't generate a response. Please try rephrasing your request."
OVERLOADED == "The AI service is currently overloaded. Please try again later."
WENT_WRONG == "Sorry, something went wrong while processing your request."
OFFLINE_UNAVAILABLE ==
    "Offline model is unavailable. Please check your local model (ollama) or network settings."

max_retries == 3
base_delay == 1

RECURSIVE pow2(_)
pow2(n) == IF n = 0 THEN 1 ELSE 2 * pow2(n - 1)

constant_delay(n) == base_delay

backoff_delay(n) == base_delay * pow2(n)

(***************************************************************************)
(* What one call of the hosted or of the local model does: it answers      *)
(* with a text, or raises ServiceUnavailable (503), a network error, or    *)
(* any other exception.                                                    *)
(***************************************************************************)
ModelTexts ==
    { <<>>, <<BLANK>>, <<PROSE, BLANK>>,
      Block(KW_LOWER, <<"get_current_time()">>) }

Answers(text) == [kind |-> "text", text |-> text]
Raises(kind) == [kind |-> kind, text |-> <<>>]

OnlineEvents ==
    {Answers(text) : text \in ModelTexts}
        \cup {Raises("503"), Raises("network"), Raises("error")}
OfflineEvents == {Answers(text) : text \in ModelTexts} \cup {Raises("error")}

outcome_of(event) ==
    IF event.kind = "text"
    THEN IF strip(event.text) = <<>> THEN "empty" ELSE "reply"
    ELSE event.kind

(***************************************************************************)
(* Entry of get_response, up to the retry loop or the offline path.        *)
(***************************************************************************)
GrCall(requested, connected, has_key) ==
    /\ pc \in {"await_model", "retry", "forced_final"}
    /\ gr_pc = "idle"
    /\ online' = (requested /\ connected)
    /\ attempt' = 0
    /\ slept' = <<>>
    /\ gr_events' = <<>>
    /\ IF online' /\ ~has_key
       THEN gr_value' = <<NO_API_KEY>> /\ gr_pc' = "return"
       ELSE /\ gr_pc' = IF online' THEN "attempt" ELSE "offline"
            /\ gr_value' = <<>>
    /\ UNCHANGED <<outerVars, pipelineVars, cycleVars, driverVars, pc, exc, invoked>>

(***************************************************************************)
(* One pass of the retry loop.                                             *)
(***************************************************************************)
GrAttempt(event) ==
    /\ gr_pc = "attempt"
    /\ gr_events' = Append(gr_events, outcome_of(event))
    /\ IF outcome_of(event) = "empty"
       THEN IF attempt < max_retries - 1
            THEN /\ slept' = Append(slept, 1)
                 /\ attempt' = attempt + 1
                 /\ UNCHANGED <<gr_pc, gr_value, online>>
            ELSE /\ gr_value' = <<NO_RESPONSE>>
                 /\ gr_pc' = "return"
                 /\ UNCHANGED <<slept, attempt, online>>
       ELSE IF outcome_of(event) = "reply"
       THEN /\ gr_value' = strip(event.text)
            /\ gr_pc' = "return"
            /\ UNCHANGED <<slept, attempt, online>>
       ELSE IF outcome_of(event) = "503"
       THEN IF attempt < max_retries - 1
            THEN /\ slept' = Append(slept, backoff_delay(attempt))
                 /\ attempt' = attempt + 1
                 /\ UNCHANGED <<gr_pc, gr_value, online>>
            ELSE /\ gr_value' = <<OVERLOADED>>
                 /\ gr_pc' = "return"
                 /\ UNCHANGED <<slept, attempt, online>>
       ELSE IF outcome_of(event) = "network"
       THEN /\ online' = FALSE
            /\ gr_pc' = "offline"
            /\ UNCHANGED <<slept, attempt, gr_value>>
       ELSE /\ gr_value' = <<WENT_WRONG>>
            /\ gr_pc' = "return"
            /\ UNCHANGED <<slept, attempt, online>>
    /\ UNCHANGED <<outerVars, pipelineVars, cycleVars, driverVars, pc, exc, invoked>>

(***************************************************************************)
(* The offline path: ollama.chat answers or fails.                         *)
(***************************************************************************)
GrOffline(event) ==
    /\ gr_pc = "offline"
    /\ gr_events' = Append(gr_events,
                           IF event.kind = "text" THEN "local" ELSE "local error")
    /\ gr_value' = IF event.kind = "text" THEN strip(event.text)
                   ELSE <<OFFLINE_UNAVAILABLE>>
    /\ gr_pc' = "return"
    /\ UNCHANGED <<online, attempt, slept>>
    /\ UNCHANGED <<outerVars, pipelineVars, cycleVars, driverVars, pc, exc, invoked>>

(***************************************************************************)
(* get_response returns into the call site of the driver it was called     *)
(* from.                                                                   *)
(***************************************************************************)
GrReturn ==
    /\ gr_pc = "return"
    /\ gr_pc' = "idle"
    /\ UNCHANGED <<online, attempt, slept, gr_value, gr_events>>
    /\ \/ ReceiveReply(gr_value)
       \/ RetryReply(gr_value)
       \/ FinalReply(gr_value)

(***************************************************************************)
(* The driver: one query on a fresh pipeline.                              *)
(***************************************************************************)
Idle ==
    /\ GLOBAL_CONVERSATION_HISTORY = <<>>
    /\ tool_cycle_count = 0
    /\ final_response = <<>>
    /\ returned = <<>>
    /\ exc = NoneValue
    /\ provider_calls = 0
    /\ tool_calls = <<>>
    /\ execution_results = <<>>
    /\ has_errors = FALSE
    /\ validation = NoVerdict
    /\ gr_pc = "idle"
    /\ online = FALSE
    /\ attempt = 0
    /\ slept = <<>>
    /\ gr_value = <<>>
    /\ gr_events = <<>>
    /\ tts_interrupt_event = FALSE
    /\ interrupt_enabled = FALSE
    /\ listening_active = FALSE
    /\ hq_pc = "idle"
    /\ written = 0
    /\ pressed_at = -1
    /\ narrated = FALSE
    /\ running = FALSE
    /\ daemon_thread = 0
    /\ threads = [t \in Threads |-> "unborn"]
    /\ lock = 0
    /\ stopping = FALSE
    /\ reminders = <<>>
    /\ tasks = <<>>
    /\ persisted = [reminders |-> <<>>, tasks |-> <<>>]
    /\ now = 0
    /\ added = 0
    /\ fired_log = <<>>
    /\ last_save = [held |-> TRUE, busy |-> FALSE]
    /\ stopped = {}

Init ==
    /\ PipelineInit
    /\ Idle
    /\ ai_response = <<>>
    /\ pc = "idle"

Next ==
    \/ \E query \in Queries : HandleQuery(query)
    \/ \E reply \in Replies : AwaitModel(reply)
    \/ \E reply \in Replies : RetryModel(reply)
    \/ CycleStart
    \/ \E behaviour \in ToolBehaviours : CycleStep(behaviour)
    \/ AfterCycle
    \/ \E reply \in Replies : ForcedFinal(reply)
    \/ LoopSkipped
    \/ ProviderRaises
    \/ PipelineError

Spec == Init /\ [][Next]_vars

(***************************************************************************)
(* process_tool_cycle called on its own on a fresh pipeline.               *)
(***************************************************************************)
CycleInit ==
    /\ PipelineInit
    /\ Idle
    /\ ai_response \in CycleResponses
    /\ pc = "process"

CycleNext ==
    \/ CycleStart
    \/ \E behaviour \in ToolBehaviours : CycleStep(behaviour)

SpecCycle == CycleInit /\ [][CycleNext]_vars

(***************************************************************************)
(* One query on a fresh pipeline with get_response in full.                *)
(***************************************************************************)
ProviderNext ==
    \/ \E query \in Queries : HandleQuery(query)
    \/ \E requested, connected, has_key \in BOOLEAN :
          GrCall(requested, connected, has_key)
    \/ \E event \in OnlineEvents : GrAttempt(event)
    \/ \E event \in OfflineEvents : GrOffline(event)
    \/ GrReturn
    \/ CycleStart
    \/ \E behaviour \in ToolBehaviours : CycleStep(behaviour)
    \/ AfterCycle
    \/ LoopSkipped
    \/ ProviderRaises
    \/ PipelineError

SpecProvider == Init /\ [][ProviderNext]_vars

(***************************************************************************)
(* A session: queries one after the other on the one pipeline and the one  *)
(* global conversation, the /clear command of main.py between them.  A     *)
(* query is started while the conversation has fewer than MaxTurns turns   *)
(* and the log fewer than MaxLogged entries.  create_system_prompt builds  *)
(* one of two prompts, and the provider answers every call of the session  *)
(* with a text that is not empty.                                          *)
(***************************************************************************)
MaxTurns == 23
MaxLogged == 2

SessionPrompts == Prompts \cup {"system prompt, offline"}
SessionReplies == {<<PROSE>>, Block(KW_LOWER, <<"get_current_time()">>)}

SessionQuery(query) ==
    /\ Len(GLOBAL_CONVERSATION_HISTORY) < MaxTurns
    /\ Len(tool_execution_log) < MaxLogged
    /\ HandleQueryWith(query, SessionPrompts)
    /\ UNCHANGED outerVars

Returns ==
    /\ pc = "done"
    /\ pc' = "idle"
    /\ UNCHANGED <<outerVars, pipelineVars, cycleVars, driverVars, exc, invoked, providerVars>>

clear_conversation_history ==
    /\ pc = "idle"
    /\ GLOBAL_CONVERSATION_HISTORY # <<>>
    /\ GLOBAL_CONVERSATION_HISTORY' = <<>>
    /\ UNCHANGED <<outerVars, pipelineVars, cycleVars, tool_cycle_count, ai_response,
                   final_response, returned, provider_calls, pc, exc, invoked,
                   providerVars>>

SessionNext ==
    \/ \E query \in Queries : SessionQuery(query)
    \/ \E reply \in SessionReplies : AwaitModel(reply)
    \/ CycleStart
    \/ \E behaviour \in ToolBehaviours : CycleStep(behaviour)
    \/ AfterCycle
    \/ \E reply \in SessionReplies : ForcedFinal(reply)
    \/ LoopSkipped
    \/ Returns
    \/ clear_conversation_history

SpecSession == Init /\ [][SessionNext]_vars

(***************************************************************************)
(* validate_tool_call called on its own, again and again on one pipeline,  *)
(* while self.allowed_tools is assigned other sets between the calls.  pc  *)
(* tells which return statement the last call left by.                     *)
(***************************************************************************)
ValidatedCodes ==
    { <<"get_weather('Paris')">>, <<"get_current_time()">>, <<"evil()">>,
      <<"os.system('rm -rf /')">>, <<"get_current_time(">> }
ToolSets ==
    {allowed_tools, allowed_tools \ {"get_weather"}, allowed_tools \cup {"evil"}}

ValidateCall(code) ==
    /\ pc \in {"idle", "return_cached", "return_computed"}
    /\ validation' = validate_tool_call(validation_cache, code)
    /\ validation_cache' = validation_cache_after(validation_cache, code)
    /\ pc' = IF in_cache(validation_cache, code)
             THEN "return_cached" ELSE "return_computed"
    /\ UNCHANGED <<outerVars, max_tool_cycles, max_tools_per_cycle, tool_execution_log,
                   parse_cache, prebound_scope, cached_prompt, self_allowed_tools,
                   tool_calls, execution_results, has_errors, driverVars,
                   exc, invoked, providerVars>>

SetAllowedTools(tools) ==
    /\ pc \in {"idle", "return_cached", "return_computed"}
    /\ tools # self_allowed_tools
    /\ self_allowed_tools' = tools
    /\ pc' = "idle"
    /\ UNCHANGED <<outerVars, max_tool_cycles, max_tools_per_cycle, tool_execution_log,
                   validation_cache, parse_cache, prebound_scope, cached_prompt,
                   cycleVars, driverVars, exc, invoked, providerVars>>

ValidateNext ==
    \/ \E code \in ValidatedCodes : ValidateCall(code)
    \/ \E tools \in ToolSets : SetAllowedTools(tools)

SpecValidate == Init /\ [][ValidateNext]_vars

(***************************************************************************)
(* process_tool_cycle on responses whose blocks carry the marker keyword   *)
(* in lower or in upper case, with a snippet or nothing as the body.       *)
(***************************************************************************)
Markers == {KW_LOWER, KW_UPPER}
Bodies == {<<"get_current_time()">>, <<"evil()">>, <<>>}
ExtractTexts ==
    {<<PROSE>>}
        \cup {Block(m, b) : m \in Markers, b \in Bodies}
        \cup {Block(m, b) \o Block(n, c) :
                 m \in Markers, n \in Markers, b \in Bodies, c \in Bodies}

ExtractInit ==
    /\ PipelineInit
    /\ Idle
    /\ ai_response \in ExtractTexts
    /\ pc = "process"

SpecExtract == ExtractInit /\ [][CycleNext]_vars

(***************************************************************************)
(* handle_query around the pipeline, the keyboard listener and listen().   *)
(* listen() holds listening_active while it records and the main loop      *)
(* hands what it heard to handle_query; handle_query clears                *)
(* the interrupt event, runs the pipeline to its end, and only then        *)
(* enables the interrupt detection and starts the narration, whose writer  *)
(* looks at the event before each word.  The listener thread calls         *)
(* _on_key_press at any moment.                                            *)
(***************************************************************************)
listen_begins ==
    /\ hq_pc = "idle"
    /\ ~listening_active
    /\ listening_active' = TRUE
    /\ UNCHANGED <<tts_interrupt_event, interrupt_enabled, hq_pc, written,
                   pressed_at, narrated>>
    /\ UNCHANGED <<pipelineVars, cycleVars, driverVars, pc, exc, invoked,
                   providerVars, daemonVars>>

listen_ends ==
    /\ listening_active
    /\ listening_active' = FALSE
    /\ hq_pc' = "heard"
    /\ UNCHANGED <<tts_interrupt_event, interrupt_enabled, written,
                   pressed_at, narrated>>
    /\ UNCHANGED <<pipelineVars, cycleVars, driverVars, pc, exc, invoked,
                   providerVars, daemonVars>>

on_key_press(key) ==
    /\ tts_interrupt_event' =
          IF interrupt_enabled /\ ~listening_active /\ key = "space"
          THEN TRUE ELSE tts_interrupt_event
    /\ pressed_at' =
          IF key = "space" /\ hq_pc = "pipeline" /\ pc # "done" /\ pressed_at = -1
          THEN tool_cycle_count ELSE pressed_at
    /\ UNCHANGED <<interrupt_enabled, listening_active, hq_pc, written, narrated>>
    /\ UNCHANGED <<pipelineVars, cycleVars, driverVars, pc, exc, invoked,
                   providerVars, daemonVars>>

handle_query(query) ==
    /\ hq_pc = "heard"
    /\ ~listening_active
    /\ IF query = ""
       THEN /\ hq_pc' = "returned"
            /\ UNCHANGED <<tts_interrupt_event, pipelineVars, cycleVars,
                           driverVars, pc, exc, invoked, providerVars>>
       ELSE /\ tts_interrupt_event' = FALSE
            /\ hq_pc' = "pipeline"
            /\ HandleQueryWith(query, Prompts)
    /\ UNCHANGED <<interrupt_enabled, listening_active, written, pressed_at,
                   narrated, daemonVars>>

narration_begins ==
    /\ hq_pc = "pipeline"
    /\ pc = "done"
    /\ IF returned # <<>>
       THEN /\ interrupt_enabled' = TRUE
            /\ narrated' = TRUE
            /\ hq_pc' = "narrating"
       ELSE /\ hq_pc' = "returned"
            /\ UNCHANGED <<interrupt_enabled, narrated>>
    /\ written' = 0
    /\ UNCHANGED <<tts_interrupt_event, listening_active, pressed_at>>
    /\ UNCHANGED <<pipelineVars, cycleVars, driverVars, pc, exc, invoked,
                   providerVars, daemonVars>>

write ==
    /\ hq_pc = "narrating"
    /\ written < Len(returned)
    /\ written' = IF tts_interrupt_event THEN Len(returned) ELSE written + 1
    /\ UNCHANGED <<tts_interrupt_event, interrupt_enabled, listening_active,
                   hq_pc, pressed_at, narrated>>
    /\ UNCHANGED <<pipelineVars, cycleVars, driverVars, pc, exc, invoked,
                   providerVars, daemonVars>>

narration_ends ==
    /\ hq_pc = "narrating"
    /\ written = Len(returned)
    /\ tts_interrupt_event' = FALSE
    /\ interrupt_enabled' = FALSE
    /\ hq_pc' = "returned"
    /\ UNCHANGED <<listening_active, written, pressed_at, narrated>>
    /\ UNCHANGED <<pipelineVars, cycleVars, driverVars, pc, exc, invoked,
                   providerVars, daemonVars>>

InterruptNext ==
    \/ listen_begins
    \/ listen_ends
    \/ \E key \in {"space", "enter"} : on_key_press(key)
    \/ \E query \in Queries : handle_query(query)
    \/ narration_begins
    \/ write
    \/ narration_ends
    \/ \E reply \in Replies : AwaitModel(reply)
    \/ \E reply \in Replies : RetryModel(reply)
    \/ CycleStart
    \/ \E behaviour \in ToolBehaviours : CycleStep(behaviour)
    \/ AfterCycle
    \/ \E reply \in Replies : ForcedFinal(reply)
    \/ LoopSkipped
    \/ ProviderRaises
    \/ PipelineError

SpecInterrupt == Init /\ [][InterruptNext]_vars

(***************************************************************************)
(* One query on the pipeline handle_query builds: five cycles, three tools *)
(* per cycle, and a provider that asks for three tools in a reply.         *)
(***************************************************************************)
GLOBAL_PIPELINE_INSTANCE == [max_tool_cycles |-> 5, max_tools_per_cycle |-> 3]

DefaultsInit ==
    /\ max_tool_cycles = GLOBAL_PIPELINE_INSTANCE.max_tool_cycles
    /\ max_tools_per_cycle = GLOBAL_PIPELINE_INSTANCE.max_tools_per_cycle
    /\ tool_execution_log = <<>>
    /\ validation_cache = <<>>
    /\ parse_cache = <<>>
    /\ prebound_scope = NoneValue
    /\ cached_prompt = NoneValue
    /\ self_allowed_tools = allowed_tools
    /\ invoked = <<>>
    /\ Idle
    /\ ai_response = <<>>
    /\ pc = "idle"

DefaultsReplies ==
    { <<PROSE>>,
      Block(KW_LOWER, <<"get_current_time()">>),
      Block(KW_LOWER, <<"get_current_time()">>)
          \o Block(KW_LOWER, <<"get_current_date()">>)
          \o Block(KW_LOWER, <<"get_current_time()">>) }

DefaultsNext ==
    \/ \E query \in Queries : HandleQuery(query)
    \/ \E reply \in DefaultsReplies : AwaitModel(reply)
    \/ CycleStart
    \/ CycleStep("returns")
    \/ AfterCycle
    \/ \E reply \in DefaultsReplies : ForcedFinal(reply)

SpecDefaults == DefaultsInit /\ [][DefaultsNext]_vars

(***************************************************************************)
(* TaskDaemon.  Time is counted in milliseconds.  reminder_daemon_wrapper  *)
(* moves a time of day that has passed to the next day; _save_state        *)
(* writes the two lists to the files; a due check fires what is due and    *)
(* not more than FIRE_WINDOW seconds late.                                 *)
(***************************************************************************)
FIRE_WINDOW == 120
check_interval == 30
DAY == 86400

scheduled(time) == IF time < now THEN time + DAY * 1000 ELSE time

is_due(entry) ==
    /\ ~entry.fired
    /\ ~entry.acknowledged
    /\ now >= entry.time
    /\ now - entry.time < FIRE_WINDOW * 1000

fire_unmarked(entries) == entries

fire_due(entries) ==
    [i \in DOMAIN entries |->
        IF is_due(entries[i]) THEN [entries[i] EXCEPT !.fired = TRUE]
        ELSE entries[i]]

callbacks_fired(entries) ==
    LET due == SelectSeq(entries, is_due) IN [i \in DOMAIN due |-> due[i].uid]

save_state(holds_lock) ==
    /\ persisted' = [reminders |-> reminders', tasks |-> tasks']
    /\ last_save' = [held |-> holds_lock, busy |-> ~holds_lock /\ lock # 0]

(***************************************************************************)
(* start() and stop(), called from one thread.  start refuses while        *)
(* running is set, else sets it and spawns a loop thread.  stop clears     *)
(* running and joins daemon_thread for five seconds; the join ends with    *)
(* the thread, or by its timeout while the thread sleeps its check         *)
(* interval or sits in a callback; then stop saves and returns True.       *)
(***************************************************************************)
start ==
    /\ ~stopping
    /\ IF running
       THEN UNCHANGED <<running, daemon_thread, threads>>
       ELSE \E t \in Threads :
               /\ threads[t] = "unborn"
               /\ \A s \in 1..(t - 1) : threads[s] # "unborn"
               /\ running' = TRUE
               /\ daemon_thread' = t
               /\ threads' = [threads EXCEPT ![t] = "waking"]
    /\ UNCHANGED <<lock, stopping, reminders, tasks, persisted, now, added,
                   fired_log, last_save, stopped>>
    /\ UNCHANGED <<pipelineVars, cycleVars, driverVars, pc, exc, invoked,
                   providerVars, interruptVars>>

stop ==
    /\ ~stopping
    /\ running
    /\ running' = FALSE
    /\ stopping' = TRUE
    /\ UNCHANGED <<daemon_thread, threads, lock, reminders, tasks, persisted,
                   now, added, fired_log, last_save, stopped>>
    /\ UNCHANGED <<pipelineVars, cycleVars, driverVars, pc, exc, invoked,
                   providerVars, interruptVars>>

stop_returns ==
    /\ stopping
    /\ threads[daemon_thread] \in
          {"ended", "sleeping", "reminders_locked", "tasks_locked"}
    /\ stopping' = FALSE
    /\ stopped' = IF threads[daemon_thread] = "ended" THEN stopped
                  ELSE stopped \cup {daemon_thread}
    /\ UNCHANGED <<reminders, tasks>>
    /\ save_state(FALSE)
    /\ UNCHANGED <<running, daemon_thread, threads, lock, now, added, fired_log>>
    /\ UNCHANGED <<pipelineVars, cycleVars, driverVars, pc, exc, invoked,
                   providerVars, interruptVars>>

(***************************************************************************)
(* add_reminder and add_task (kind names the list), acknowledge_reminder,  *)
(* remove_reminder and remove_task, called from any thread: each takes     *)
(* the lock, changes the list and saves.  The id is the clock in           *)
(* milliseconds at the call.                                               *)
(***************************************************************************)
add_reminder(kind, time) ==
    /\ added < MaxAdds
    /\ lock = 0
    /\ added' = added + 1
    /\ LET entry == [id |-> now,
                     time |-> IF kind = "reminders" THEN scheduled(time) ELSE time,
                     fired |-> FALSE, acknowledged |-> FALSE, uid |-> added'] IN
       IF kind = "reminders"
       THEN reminders' = Append(reminders, entry) /\ UNCHANGED tasks
       ELSE tasks' = Append(tasks, entry) /\ UNCHANGED reminders
    /\ save_state(TRUE)
    /\ UNCHANGED <<running, daemon_thread, threads, lock, stopping, now,
                   fired_log, stopped>>
    /\ UNCHANGED <<pipelineVars, cycleVars, driverVars, pc, exc, invoked,
                   providerVars, interruptVars>>

acknowledge_reminder(reminder_id) ==
    /\ lock = 0
    /\ \E i \in DOMAIN reminders :
          /\ reminders[i].id = reminder_id
          /\ \A j \in 1..(i - 1) : reminders[j].id # reminder_id
          /\ reminders' = [reminders EXCEPT ![i].acknowledged = TRUE]
    /\ UNCHANGED tasks
    /\ save_state(TRUE)
    /\ UNCHANGED <<running, daemon_thread, threads, lock, stopping, now, added,
                   fired_log, stopped>>
    /\ UNCHANGED <<pipelineVars, cycleVars, driverVars, pc, exc, invoked,
                   providerVars, interruptVars>>

without_id(entries, entry_id) ==
    SelectSeq(entries, LAMBDA entry : entry.id # entry_id)

remove_reminder(kind, entry_id) ==
    /\ lock = 0
    /\ IF kind = "reminders"
       THEN /\ Len(without_id(reminders, entry_id)) < Len(reminders)
            /\ reminders' = without_id(reminders, entry_id)
            /\ UNCHANGED tasks
       ELSE /\ Len(without_id(tasks, entry_id)) < Len(tasks)
            /\ tasks' = without_id(tasks, entry_id)
            /\ UNCHANGED reminders
    /\ save_state(TRUE)
    /\ UNCHANGED <<running, daemon_thread, threads, lock, stopping, now, added,
                   fired_log, stopped>>
    /\ UNCHANGED <<pipelineVars, cycleVars, driverVars, pc, exc, invoked,
                   providerVars, interruptVars>>

(***************************************************************************)
(* _run in a loop thread: the test of running, then the check of the       *)
(* reminders and the check of the tasks, each under the lock, then the     *)
(* sleep of check_interval seconds.                                        *)
(***************************************************************************)
run_test(t) ==
    /\ threads[t] = "waking"
    /\ threads' = [threads EXCEPT ![t] = IF running THEN "reminders" ELSE "ended"]
    /\ UNCHANGED <<running, daemon_thread, lock, stopping, reminders, tasks,
                   persisted, now, added, fired_log, last_save, stopped>>
    /\ UNCHANGED <<pipelineVars, cycleVars, driverVars, pc, exc, invoked,
                   providerVars, interruptVars>>

check_acquire(t) ==
    /\ threads[t] \in {"reminders", "tasks"}
    /\ lock = 0
    /\ lock' = t
    /\ threads' = [threads EXCEPT
                      ![t] = IF threads[t] = "reminders"
                             THEN "reminders_locked" ELSE "tasks_locked"]
    /\ UNCHANGED <<running, daemon_thread, stopping, reminders, tasks,
                   persisted, now, added, fired_log, last_save, stopped>>
    /\ UNCHANGED <<pipelineVars, cycleVars, driverVars, pc, exc, invoked,
                   providerVars, interruptVars>>

check_due_reminders(t) ==
    /\ threads[t] = "reminders_locked"
    /\ reminders' = fire_due(reminders)
    /\ fired_log' = fired_log \o callbacks_fired(reminders)
    /\ UNCHANGED tasks
    /\ save_state(TRUE)
    /\ lock' = 0
    /\ threads' = [threads EXCEPT ![t] = "tasks"]
    /\ UNCHANGED <<running, daemon_thread, stopping, now, added, stopped>>
    /\ UNCHANGED <<pipelineVars, cycleVars, driverVars, pc, exc, invoked,
                   providerVars, interruptVars>>

check_due_tasks(t) ==
    /\ threads[t] = "tasks_locked"
    /\ tasks' = fire_due(tasks)
    /\ fired_log' = fired_log \o callbacks_fired(tasks)
    /\ UNCHANGED reminders
    /\ save_state(TRUE)
    /\ lock' = 0
    /\ threads' = [threads EXCEPT ![t] = "sleeping"]
    /\ UNCHANGED <<running, daemon_thread, stopping, now, added, stopped>>
    /\ UNCHANGED <<pipelineVars, cycleVars, driverVars, pc, exc, invoked,
                   providerVars, interruptVars>>

(***************************************************************************)
(* The clock.  One check interval passes while every loop thread sleeps    *)
(* and no caller waits in the five seconds of the join; the sleepers then  *)
(* wake.  A millisecond passes at any moment.                              *)
(***************************************************************************)
sleep_elapses ==
    /\ ~stopping
    /\ \A t \in Threads : threads[t] \in {"unborn", "sleeping", "ended"}
    /\ now + check_interval * 1000 <= MaxTime
    /\ now' = now + check_interval * 1000
    /\ threads' = [t \in Threads |->
                      IF threads[t] = "sleeping" THEN "waking" ELSE threads[t]]
    /\ UNCHANGED <<running, daemon_thread, lock, stopping, reminders, tasks,
                   persisted, added, fired_log, last_save, stopped>>
    /\ UNCHANGED <<pipelineVars, cycleVars, driverVars, pc, exc, invoked,
                   providerVars, interruptVars>>

millisecond_elapses ==
    /\ now % 1000 < MaxMs
    /\ now' = now + 1
    /\ UNCHANGED <<running, daemon_thread, threads, lock, stopping, reminders,
                   tasks, persisted, added, fired_log, last_save, stopped>>
    /\ UNCHANGED <<pipelineVars, cycleVars, driverVars, pc, exc, invoked,
                   providerVars, interruptVars>>

(***************************************************************************)
(* The process ends between two checks and a new one is set up after some  *)
(* time: TaskDaemon() loads the files with _load_state and                 *)
(* initialize_daemon starts its loop.                                      *)
(***************************************************************************)
load_state(downtime) ==
    /\ lock = 0
    /\ ~stopping
    /\ \A t \in Threads : threads[t] \in {"unborn", "sleeping", "ended"}
    /\ now + downtime <= MaxTime
    /\ now' = now + downtime
    /\ reminders' = persisted.reminders
    /\ tasks' = persisted.tasks
    /\ running' = TRUE
    /\ daemon_thread' = 1
    /\ threads' = [t \in Threads |-> IF t = 1 THEN "waking" ELSE "unborn"]
    /\ stopped' = {}
    /\ UNCHANGED <<lock, stopping, persisted, added, fired_log, last_save>>
    /\ UNCHANGED <<pipelineVars, cycleVars, driverVars, pc, exc, invoked,
                   providerVars, interruptVars>>

Kinds == {"reminders", "tasks"}
Times == {60000}
Ids(entries) == {entries[i].id : i \in DOMAIN entries}

DaemonNext ==
    \/ start
    \/ stop
    \/ stop_returns
    \/ \E kind \in Kinds, time \in Times : add_reminder(kind, time)
    \/ \E reminder_id \in Ids(reminders) : acknowledge_reminder(reminder_id)
    \/ \E entry_id \in Ids(reminders) : remove_reminder("reminders", entry_id)
    \/ \E entry_id \in Ids(tasks) : remove_reminder("tasks", entry_id)
    \/ \E t \in Threads : run_test(t)
    \/ \E t \in Threads : check_acquire(t)
    \/ \E t \in Threads : check_due_reminders(t)
    \/ \E t \in Threads : check_due_tasks(t)
    \/ sleep_elapses
    \/ millisecond_elapses
    \/ \E downtime \in {0, 150000} : load_state(downtime)

SpecDaemon == DefaultsInit /\ [][DaemonNext]_vars

(***************************************************************************)
(* The daemon whose loop keeps running: initialize_daemon starts it, no    *)
(* caller stops it, time passes only while the loop runs or while the      *)
(* process is down, and the scheduler lets the loop thread and the clock   *)
(* go on.                                                                  *)
(***************************************************************************)
interval_elapses == running /\ sleep_elapses

DaemonLiveNext ==
    \/ start
    \/ \E time \in Times : add_reminder("reminders", time)
    \/ \E reminder_id \in Ids(reminders) : acknowledge_reminder(reminder_id)
    \/ \E entry_id \in Ids(reminders) : remove_reminder("reminders", entry_id)
    \/ \E t \in Threads : run_test(t)
    \/ \E t \in Threads : check_acquire(t)
    \/ \E t \in Threads : check_due_reminders(t)
    \/ \E t \in Threads : check_due_tasks(t)
    \/ interval_elapses
    \/ \E downtime \in {0, 150000} : load_state(downtime)

DaemonFairness ==
    /\ WF_vars(start)
    /\ WF_vars(interval_elapses)
    /\ \A t \in Threads :
          WF_vars(run_test(t) \/ check_acquire(t)
                  \/ check_due_reminders(t) \/ check_due_tasks(t))

SpecDaemonLive == DefaultsInit /\ [][DaemonLiveNext]_vars /\ DaemonFairness

(***************************************************************************)
(*                              THE CLAIMS                                 *)
(*                                                                         *)
(* The vocabulary of the claims: shapes of a candidate, read off its       *)
(* syntax tree.                                                            *)
(***************************************************************************)
Range(seq) == {seq[i] : i \in 1..Len(seq)}

Candidates == Range(extract_tool_calls(ai_response))

RECURSIVE NodesOf(_)
NodesOf(node) ==
    {node} \cup UNION {NodesOf(child) : child \in Range(iter_child_nodes(node))}

CallNodes(code) == {node \in NodesOf(ast_parse(code)) : node.t = "Call"}

Statements(code) ==
    IF ast_parse(code).t = "Module" THEN ast_parse(code).body ELSE <<>>

RECURSIVE PlainLiteral(_)
PlainLiteral(node) ==
    CASE node.t = "Constant" -> TRUE
      [] node.t = "List" -> \A i \in 1..Len(node.elts) : PlainLiteral(node.elts[i])
      [] node.t = "Dict" -> \A i \in 1..Len(node.values) : PlainLiteral(node.values[i])
      [] OTHER -> FALSE

SingleCallOfAllowedTool(code) ==
    /\ Len(Statements(code)) = 1
    /\ Statements(code)[1].t = "Expr"
    /\ Statements(code)[1].value.t = "Call"
    /\ Statements(code)[1].value.func.t = "Name"
    /\ Statements(code)[1].value.func.id \in allowed_tools

TopCall(code) == Statements(code)[1].value

SingleLiteralCall(code) ==
    /\ SingleCallOfAllowedTool(code)
    /\ \A i \in 1..Len(TopCall(code).args) : PlainLiteral(TopCall(code).args[i])
    /\ \A i \in 1..Len(TopCall(code).keywords) :
          /\ TopCall(code).keywords[i].arg # NoneValue
          /\ PlainLiteral(TopCall(code).keywords[i].value)

SeveralStatements(code) == Len(Statements(code)) >= 2
NonCallExpression(code) ==
    /\ Len(Statements(code)) = 1
    /\ Statements(code)[1].t = "Expr"
    /\ Statements(code)[1].value.t # "Call"
KeywordUnpacking(code) ==
    \E node \in CallNodes(code) :
        \E i \in 1..Len(node.keywords) : node.keywords[i].arg = NoneValue

NeverInvoked(code) == \A k \in 1..Len(invoked) : invoked[k].code # code
NeverExecuted(code) ==
    /\ NeverInvoked(code)
    /\ \A k \in 1..Len(tool_execution_log) : tool_execution_log[k].code # code
Outcomes == 1..Len(execution_results)

(***************************************************************************)
(* C1.  A tool callable is invoked only for a candidate that is exactly    *)
(* one expression statement calling a simple name of allowed_tools with    *)
(* literal arguments only, and the callable invoked is the one named; a    *)
(* candidate of several statements, a non-call expression or a keyword     *)
(* unpacking invokes nothing.                                              *)
(***************************************************************************)
C1_InvokedOnlySingleLiteralCall ==
    /\ \A k \in 1..Len(invoked) :
          /\ SingleLiteralCall(invoked[k].code)
          /\ invoked[k].name = TopCall(invoked[k].code).func.id
    /\ \A code \in Candidates :
          (SeveralStatements(code) \/ NonCallExpression(code) \/ KeywordUnpacking(code))
             => NeverInvoked(code)

C1_Witness ==
    /\ pc = "cycle_return"
    /\ invoked # <<>>
    /\ \E i \in Outcomes :
          SeveralStatements(execution_results[i].code) /\ ~execution_results[i].success

(***************************************************************************)
(* C2.  For every candidate that calls a name absent from allowed_tools,   *)
(* validate_tool_call returns invalid and _parse_tool_call fails, and no   *)
(* tool callable is invoked for that candidate.                            *)
(***************************************************************************)
AbsentNameCall(node) ==
    node.t = "Call" /\ node.func.t = "Name" /\ node.func.id \notin allowed_tools
CallsAbsentName(code) == \E node \in CallNodes(code) : AbsentNameCall(node)

Processed == {execution_results[i].code : i \in Outcomes}

C2_AbsentNameFailsBothGates ==
    \A code \in Processed :
        CallsAbsentName(code) =>
            /\ ~validate_tool_call(validation_cache, code).valid
            /\ ~parse_tool_call(parse_cache, code).ok
            /\ NeverInvoked(code)

(***************************************************************************)
(* What does hold of such a candidate: the validator rejects it and no     *)
(* callable is invoked; the parser fails on it unless every call of an     *)
(* absent name is the empty-set constructor set() inside an argument,      *)
(* which ast.literal_eval evaluates.                                       *)
(***************************************************************************)
EmptySetCall(node) ==
    /\ node.t = "Call"
    /\ node.func = Name("set")
    /\ node.args = <<>>
    /\ node.keywords = <<>>
CallsAbsentNameBeyondSet(code) ==
    \/ \E node \in CallNodes(code) : AbsentNameCall(node) /\ ~EmptySetCall(node)
    \/ \E i \in 1..Len(Statements(code)) : AbsentNameCall(Statements(code)[i].value)

AbsentNameRejectedByValidator ==
    \A code \in Candidates :
        CallsAbsentName(code) =>
            /\ ~validate_tool_call(validation_cache, code).valid
            /\ CallsAbsentNameBeyondSet(code) => ~parse_tool_call(parse_cache, code).ok
            /\ NeverInvoked(code)

(***************************************************************************)
(* C3.  A candidate holding, at any depth, a call whose callee is not a    *)
(* simple name is judged invalid, with the only-direct-calls reason when   *)
(* that call is the first offending call of the walk, and is never         *)
(* executed.                                                               *)
(***************************************************************************)
IndirectCall(node) == node.t = "Call" /\ node.func.t # "Name"
HasIndirectCall(code) == \E node \in CallNodes(code) : IndirectCall(node)
FirstOffendingIsIndirect(code) ==
    LET w == ast_walk(ast_parse(code)) IN
    \E i \in 1..Len(w) :
        /\ IndirectCall(w[i])
        /\ \A j \in 1..(i - 1) : ~IndirectCall(w[j]) /\ ~AbsentNameCall(w[j])

C3_IndirectCallRejected ==
    \A code \in Candidates :
        HasIndirectCall(code) =>
            /\ ~validate_tool_call(validation_cache, code).valid
            /\ FirstOffendingIsIndirect(code) =>
                   validate_tool_call(validation_cache, code) = OnlyDirect
            /\ NeverExecuted(code)

C3_Witness ==
    /\ pc = "cycle_return"
    /\ \E i \in Outcomes :
          /\ HasIndirectCall(execution_results[i].code)
          /\ SingleCallOfAllowedTool(execution_results[i].code)
          /\ ~execution_results[i].success
    /\ \E i \in Outcomes :
          /\ HasIndirectCall(execution_results[i].code)
          /\ ~FirstOffendingIsIndirect(execution_results[i].code)
          /\ ~execution_results[i].success
(***************************************************************************)
(* C4.  For every candidate calling an allow-listed tool with an argument  *)
(* that is a name reference, an attribute or a nested call, parsing fails  *)
(* with a non-literal-argument error, the tool is not invoked, the cycle   *)
(* reports a failed outcome, and the driver appends a tool-error turn for  *)
(* it.  (A call with keyword unpacking is the case of C1.)                 *)
(***************************************************************************)
NonLiteralArgument(node) == node.t \in {"Name", "Attribute", "Call"}
CallsToolWithNonLiteral(code) ==
    /\ SingleCallOfAllowedTool(code)
    /\ \A i \in 1..Len(TopCall(code).keywords) : TopCall(code).keywords[i].arg # NoneValue
    /\ \/ \E i \in 1..Len(TopCall(code).args) : NonLiteralArgument(TopCall(code).args[i])
       \/ \E i \in 1..Len(TopCall(code).keywords) :
             NonLiteralArgument(TopCall(code).keywords[i].value)
NonLiteralErrors == {ErrPositional, ErrKeyword}
IsToolErrorTurn(turn, result) ==
    /\ turn.role = "system"
    /\ Len(turn.content) = 4
    /\ turn.content[1] = TOOL_ERROR
    /\ turn.content[2] = result.code
    /\ turn.content[4][1] = result.error[1]
AfterToolRound == pc \in {"await_model", "forced_final"} /\ tool_cycle_count > 0

C4_NonLiteralArgumentFails ==
    /\ \A code \in Processed :
          CallsToolWithNonLiteral(code) =>
              /\ ~parse_tool_call(parse_cache, code).ok
              /\ parse_tool_call(parse_cache, code).error \in NonLiteralErrors
              /\ NeverInvoked(code)
              /\ \A i \in Outcomes :
                    execution_results[i].code = code => ~execution_results[i].success
    /\ AfterToolRound =>
          \A i \in Outcomes :
              CallsToolWithNonLiteral(execution_results[i].code) =>
                  \E t \in 1..Len(GLOBAL_CONVERSATION_HISTORY) :
                      IsToolErrorTurn(GLOBAL_CONVERSATION_HISTORY[t], execution_results[i])

(***************************************************************************)
(* C5.  A tool that raises, or an allow-listed name without a callable in  *)
(* the runtime, gives a failed outcome carrying the error text; the        *)
(* exception never leaves execute_tool_call; the remaining candidates of   *)
(* the cycle are processed; and after the cycle the driver goes on to the  *)
(* next model call instead of ending the query.                            *)
(***************************************************************************)
ToolLevelExceptions == {"ValueError", "NameError", "tool exception"}
Unimplemented(code) ==
    SingleLiteralCall(code) /\ TopCall(code).func.id \notin module_globals
RaisedAt(i) ==
    \E k \in 1..Len(invoked) :
        /\ invoked[k].cycle = tool_cycle_count
        /\ invoked[k].slot = i
        /\ invoked[k].behaviour = "raises"
InCycle == pc \in {"cycle", "cycle_return"}
FailedExecuting(result, code, detail) ==
    /\ ~result.success
    /\ result.result = NoneValue
    /\ result.code = code
    /\ result.error[1] = ERR_EXECUTING
    /\ result.error[2] = detail

C5_Contained ==
    /\ exc \notin ToolLevelExceptions
    /\ returned \notin {<<PIPELINE_ERROR, e>> : e \in ToolLevelExceptions}
    /\ \A k \in 1..Len(invoked) :
          invoked[k].behaviour = "raises" =>
              \E j \in 1..Len(tool_execution_log) :
                  FailedExecuting(tool_execution_log[j], invoked[k].code, ERR_TOOL_RAISED)
    /\ InCycle =>
          \A i \in Outcomes :
              /\ RaisedAt(i) =>
                    FailedExecuting(execution_results[i], tool_calls[i], ERR_TOOL_RAISED)
              /\ Unimplemented(tool_calls[i]) =>
                    FailedExecuting(execution_results[i], tool_calls[i],
                                    ERR_NOT_IMPLEMENTED)
    /\ pc = "cycle" => Len(execution_results) < Len(tool_calls)
    /\ pc = "cycle_return" => Len(execution_results) = Len(tool_calls)

C5_DriverContinues ==
    (pc = "cycle_return" /\ has_errors) =>
        (pc' \in {"await_model", "forced_final"} /\ returned' = returned)

C5_ToolFailureContained == []C5_Contained /\ [][C5_DriverContinues]_vars

C5_Witness ==
    /\ pc = "await_model"
    /\ tool_cycle_count = 1
    /\ Len(execution_results) = 2
    /\ FailedExecuting(execution_results[1], <<"get_cpu_usage()">>, ERR_NOT_IMPLEMENTED)
    /\ FailedExecuting(execution_results[2], <<"get_weather('Paris')">>, ERR_TOOL_RAISED)
    /\ \E k \in 1..Len(invoked) : invoked[k].behaviour = "raises"

(***************************************************************************)
(* C6.  When the candidates of a response are not more than                *)
(* max_tools_per_cycle, process_tool_cycle handles them one at a time in   *)
(* textual order and returns one outcome per candidate in that order,      *)
(* each with the right success flag; has_errors is true exactly when some  *)
(* candidate is invalid or some valid candidate failed in execution.       *)
(***************************************************************************)
SnippetTokens == SelectSeq(ai_response, LAMBDA token : token \in Snippets)
TextualCandidates == [i \in 1..Len(SnippetTokens) |-> <<SnippetTokens[i]>>]
WithinCap == Len(TextualCandidates) <= max_tools_per_cycle
ValidCandidate(code) ==
    /\ ast_parse(code).t = "Module"
    /\ ~CallsAbsentName(code)
    /\ \A node \in CallNodes(code) : node.func.t = "Name"
ReturnedAt(i) ==
    \E k \in 1..Len(invoked) :
        /\ invoked[k].cycle = tool_cycle_count
        /\ invoked[k].slot = i
        /\ invoked[k].behaviour = "returns"
        /\ invoked[k].code = TextualCandidates[i]
InTextualOrder ==
    /\ Len(execution_results) <= Len(TextualCandidates)
    /\ \A i \in Outcomes : execution_results[i].code = TextualCandidates[i]
OneAtATime ==
    /\ \A k \in 1..Len(invoked) : invoked[k].slot <= Len(execution_results)
    /\ \A k \in 1..(Len(invoked) - 1) : invoked[k].slot < invoked[k + 1].slot

C6_OutcomesInOrder ==
    WithinCap =>
        /\ InTextualOrder
        /\ OneAtATime
        /\ pc = "cycle_return" => Len(execution_results) = Len(TextualCandidates)
        /\ \A i \in Outcomes :
              /\ execution_results[i].success <=>
                    (ValidCandidate(TextualCandidates[i]) /\ ReturnedAt(i))
              /\ ~ValidCandidate(TextualCandidates[i]) =>
                    execution_results[i].error[1] = ERR_VALIDATION
        /\ pc = "cycle_return" =>
              (has_errors <=>
                  \/ \E i \in Outcomes : ~ValidCandidate(TextualCandidates[i])
                  \/ \E i \in Outcomes :
                        /\ ValidCandidate(TextualCandidates[i])
                        /\ ~execution_results[i].success)

C6_Witness ==
    /\ pc = "cycle_return"
    /\ WithinCap
    /\ Len(execution_results) = 2
    /\ ~ValidCandidate(execution_results[1].code)
    /\ ~execution_results[1].success
    /\ execution_results[2].success
    /\ has_errors

(***************************************************************************)
(* C7.  When a response holds more candidates than max_tools_per_cycle,    *)
(* only the first max_tools_per_cycle are processed, in order; a candidate *)
(* beyond them is not validated, not executed and has no outcome.          *)
(***************************************************************************)
OverCap == Len(TextualCandidates) > max_tools_per_cycle
Kept == {TextualCandidates[i] : i \in 1..max_tools_per_cycle}
Validated == {validation_cache[i][1] : i \in 1..Len(validation_cache)}
ParsedCodes == {parse_cache[i][1] : i \in 1..Len(parse_cache)}
Logged == {tool_execution_log[i].code : i \in 1..Len(tool_execution_log)}
Invoked == {invoked[i].code : i \in 1..Len(invoked)}

C7_ExcessDropped ==
    OverCap =>
        /\ Len(execution_results) <= max_tools_per_cycle
        /\ \A i \in Outcomes : execution_results[i].code = TextualCandidates[i]
        /\ pc = "cycle_return" => Len(execution_results) = max_tools_per_cycle
        /\ Len(validation_cache) <= max_tools_per_cycle
        /\ Len(tool_execution_log) <= max_tools_per_cycle
        /\ Len(invoked) <= max_tools_per_cycle
        /\ (Validated \cup ParsedCodes \cup Logged \cup Invoked \cup Processed) \subseteq Kept

C7_Witness ==
    /\ pc = "cycle_return"
    /\ OverCap
    /\ max_tools_per_cycle = 1
    /\ Len(execution_results) = 1
    /\ Invoked = {TextualCandidates[1]}
    /\ SingleLiteralCall(TextualCandidates[2])
    /\ TextualCandidates[2] # TextualCandidates[1]
(***************************************************************************)
(* C8.  handle_query_with_iterative_tools terminates whatever the provider *)
(* and the tools do: every step lowers a natural-number rank and only a    *)
(* returned query has no step left; it runs at most max_tool_cycles tool   *)
(* rounds; when the cycle count reaches max_tool_cycles it makes one       *)
(* forced final-answer call and returns without another round; and a query *)
(* makes at most 2*max_tool_cycles+1 provider calls.                       *)
(***************************************************************************)
RoundWeight == max_tools_per_cycle + 4
RoundsLeft == max_tool_cycles - tool_cycle_count
InRound(position) == (RoundsLeft - 1) * RoundWeight + position
Rank ==
    CASE pc = "idle" -> max_tool_cycles * RoundWeight + 10
      [] pc = "await_model" -> InRound(max_tools_per_cycle + 6)
      [] pc = "retry" -> InRound(max_tools_per_cycle + 5)
      [] pc = "process" -> InRound(max_tools_per_cycle + 4)
      [] pc = "cycle" -> InRound(3 + Len(tool_calls) - Len(execution_results))
      [] pc = "cycle_return" -> InRound(3)
      [] pc = "forced_final" -> 2
      [] pc = "exhausted" -> 1
      [] pc = "raised" -> 1
      [] pc = "done" -> 0
InToolRound == pc \in {"process", "cycle", "cycle_return"}
StepAvailable ==
    \/ ENABLED (\E query \in Queries : HandleQuery(query))
    \/ ENABLED (\E reply \in Replies : AwaitModel(reply))
    \/ ENABLED (\E reply \in Replies : RetryModel(reply))
    \/ ENABLED CycleStart
    \/ pc = "cycle" /\ Len(execution_results) < Len(tool_calls)
    \/ ENABLED AfterCycle
    \/ ENABLED (\E reply \in Replies : ForcedFinal(reply))
    \/ ENABLED LoopSkipped
    \/ ENABLED PipelineError

C8_Bounded ==
    /\ tool_cycle_count <= max_tool_cycles
    /\ InToolRound => tool_cycle_count < max_tool_cycles
    /\ provider_calls <= 2 * tool_cycle_count + 2
    /\ provider_calls <= 2 * max_tool_cycles + 1
    /\ pc = "forced_final" => tool_cycle_count = max_tool_cycles
    /\ Rank >= 0
    /\ pc # "done" => StepAvailable

C8_RankDecreases == Rank' < Rank

C8_ForcedFinalOnce ==
    /\ (tool_cycle_count' = max_tool_cycles /\ tool_cycle_count' # tool_cycle_count)
          => pc' = "forced_final"
    /\ pc = "forced_final" =>
          /\ provider_calls' = provider_calls + 1
          /\ pc' \in {"done", "raised"}
    /\ pc = "raised" => pc' = "done"

C8_Terminates ==
    /\ []C8_Bounded
    /\ [][C8_RankDecreases]_vars
    /\ [][C8_ForcedFinalOnce]_vars

C8_Witness ==
    /\ pc = "done"
    /\ max_tool_cycles = MaxCyclesParam
    /\ tool_cycle_count = max_tool_cycles
    /\ provider_calls = 2 * max_tool_cycles + 1
    /\ invoked # <<>>
    /\ returned = <<PROSE>>

(***************************************************************************)
(* C9.  On the budget-exhausted path the answer returned holds no fenced   *)
(* tool_code block: when the forced final response still held tool-call    *)
(* syntax that the extractor accepts, in lower or upper case, the answer   *)
(* is the disclaimer followed by the response with that syntax removed.    *)
(***************************************************************************)
HasToolBlock(text) ==
    \E i \in 1..(Len(text) - 1) :
        text[i] = FENCE /\ text[i + 1] \in {KW_LOWER, KW_UPPER}
ScrubbedAnswer ==
    /\ pc = "done"
    /\ tool_cycle_count >= max_tool_cycles
    /\ returned # <<>>
    /\ returned[1] = DISCLAIMER

C9_ScrubbedAnswerHasNoToolBlock == ScrubbedAnswer => ~HasToolBlock(returned)

(***************************************************************************)
(* C10.  A response from which no candidate is extracted makes             *)
(* process_tool_cycle return ([], False), and the driver returns that      *)
(* response unchanged as the answer of the query, with no tool executed    *)
(* and no further provider call.                                           *)
(***************************************************************************)
NoCandidates == extract_tool_calls(ai_response) = <<>>
NothingExecuted ==
    /\ invoked' = invoked
    /\ tool_execution_log' = tool_execution_log
    /\ provider_calls' = provider_calls

C10_CycleReturnsEmpty ==
    (pc = "cycle_return" /\ NoCandidates) => (execution_results = <<>> /\ ~has_errors)

C10_Steps ==
    /\ (pc = "process" /\ NoCandidates) =>
          /\ pc' = "cycle_return"
          /\ execution_results' = <<>>
          /\ has_errors' = FALSE
          /\ NothingExecuted
    /\ (pc = "cycle_return" /\ NoCandidates) =>
          /\ pc' = "done"
          /\ returned' = ai_response
          /\ final_response' = ai_response
          /\ NothingExecuted

C10_NoCandidatesIsFinalAnswer == []C10_CycleReturnsEmpty /\ [][C10_Steps]_vars

C10_Witness ==
    /\ pc = "done"
    /\ ai_response = <<FENCE, KW_LOWER, BLANK, FENCE>>
    /\ returned = ai_response
    /\ provider_calls = 1
    /\ invoked = <<>>
(***************************************************************************)
(* C11.  After a tool round the conversation ends with the assistant turn  *)
(* that asked for the tools, followed by exactly one tool-result turn per  *)
(* outcome, in outcome order, tagged success (with the code and the        *)
(* result) or error (with the code and the error text), and these turns    *)
(* are in place when the next provider call is made; no other step adds a  *)
(* tool-result turn.                                                       *)
(***************************************************************************)
IsToolTurn(turn) ==
    /\ turn.role = "system"
    /\ Len(turn.content) = 4
    /\ turn.content[1] \in {TOOL_SUCCESS, TOOL_ERROR}
ToolTurnCount(history) ==
    Cardinality({t \in 1..Len(history) : IsToolTurn(history[t])})
ReportsOutcome(turn, result) ==
    /\ IsToolTurn(turn)
    /\ turn.content[1] = (IF result.success THEN TOOL_SUCCESS ELSE TOOL_ERROR)
    /\ turn.content[2] = result.code
    /\ turn.content[3] = (IF result.success THEN "Result:" ELSE "Error:")
    /\ IF result.success
       THEN turn.content[4] = result.result
       ELSE /\ turn.content[4][1] = result.error[1]
            /\ turn.content[4][2] = result.error[2]
FinalPromptTurns == IF pc = "forced_final" THEN 1 ELSE 0
RequestAt == Len(GLOBAL_CONVERSATION_HISTORY) - FinalPromptTurns - Len(execution_results)

C11_TurnsInPlace ==
    AfterToolRound =>
        /\ execution_results # <<>>
        /\ RequestAt >= 1
        /\ GLOBAL_CONVERSATION_HISTORY[RequestAt].role = "assistant"
        /\ GLOBAL_CONVERSATION_HISTORY[RequestAt].content = ai_response
        /\ \A i \in Outcomes :
              ReportsOutcome(GLOBAL_CONVERSATION_HISTORY[RequestAt + i],
                             execution_results[i])
        /\ pc = "forced_final" =>
              GLOBAL_CONVERSATION_HISTORY[Len(GLOBAL_CONVERSATION_HISTORY)].role = "user"

C11_OnePerOutcome ==
    ToolTurnCount(GLOBAL_CONVERSATION_HISTORY') =
        ToolTurnCount(GLOBAL_CONVERSATION_HISTORY)
            + (IF pc = "cycle_return" THEN Len(execution_results) ELSE 0)

C11_ToolTurnsAppended == []C11_TurnsInPlace /\ [][C11_OnePerOutcome]_vars

C11_Witness ==
    /\ pc = "await_model"
    /\ tool_cycle_count = 1
    /\ Len(execution_results) = 2
    /\ execution_results[1].success
    /\ ~execution_results[2].success
    /\ ToolTurnCount(GLOBAL_CONVERSATION_HISTORY) = 2
(***************************************************************************)
(* C12.  An empty response at the head of the loop is never taken as an    *)
(* answer: the driver appends one recovery instruction turn and calls the  *)
(* provider once more; a second empty response ends the query with the     *)
(* apology string, no exception raised and no tool executed.               *)
(***************************************************************************)
RecoveryTurn == Turn("user", <<RECOVERY_PROMPT>>)
LastTurn == GLOBAL_CONVERSATION_HISTORY[Len(GLOBAL_CONVERSATION_HISTORY)]

C12_State ==
    /\ InToolRound => ai_response # <<>>
    /\ \A t \in 1..Len(GLOBAL_CONVERSATION_HISTORY) :
          GLOBAL_CONVERSATION_HISTORY[t].role = "assistant" =>
              GLOBAL_CONVERSATION_HISTORY[t].content # <<>>
    /\ pc = "retry" =>
          /\ Len(GLOBAL_CONVERSATION_HISTORY) >= 3
          /\ LastTurn = RecoveryTurn
          /\ GLOBAL_CONVERSATION_HISTORY[Len(GLOBAL_CONVERSATION_HISTORY) - 1].role
                \in {"user", "system"}
          /\ GLOBAL_CONVERSATION_HISTORY[Len(GLOBAL_CONVERSATION_HISTORY) - 1]
                # RecoveryTurn
    /\ (pc = "done" /\ returned = <<APOLOGY_EMPTY>>) =>
          /\ LastTurn = RecoveryTurn
          /\ exc = NoneValue
          /\ provider_calls >= 2

C12_Steps ==
    /\ (pc = "await_model" /\ pc' = "retry") =>
          /\ GLOBAL_CONVERSATION_HISTORY' =
                Append(GLOBAL_CONVERSATION_HISTORY, RecoveryTurn)
          /\ provider_calls' = provider_calls + 1
          /\ invoked' = invoked
    /\ pc = "retry" =>
          /\ provider_calls' = provider_calls + 1
          /\ pc' \in {"process", "done", "raised"}
          /\ invoked' = invoked
          /\ tool_execution_log' = tool_execution_log
          /\ pc' = "process" => LastTurn' = Turn("assistant", ai_response')
          /\ pc' = "done" =>
                /\ returned' = <<APOLOGY_EMPTY>>
                /\ GLOBAL_CONVERSATION_HISTORY' = GLOBAL_CONVERSATION_HISTORY
    /\ (pc # "retry" /\ pc' = "done") => returned' # <<APOLOGY_EMPTY>>

C12_EmptyResponseRecovery == []C12_State /\ [][C12_Steps]_vars

C12_Witness ==
    /\ pc = "done"
    /\ returned = <<APOLOGY_EMPTY>>
    /\ tool_cycle_count = 1
    /\ provider_calls = 3
    /\ Len(invoked) = 1
(***************************************************************************)
(* C13.  Retries of get_response on the hosted path.  At most max_retries  *)
(* attempts are made; an attempt that reports 503 before the last one is   *)
(* followed by a sleep of 1 s after the first attempt and 2 s after the    *)
(* second; the first attempt that answers with a text ends the call with   *)
(* that text, stripped; the overloaded message is returned exactly when    *)
(* the last of the max_retries attempts reported 503, every earlier        *)
(* attempt having reported 503 or answered with an empty text.             *)
(***************************************************************************)
AttemptsMade == Len(SelectSeq(gr_events, LAMBDA e : e \notin {"local", "local error"}))
DelayAfterUnavailable == <<1, 2>>
Returning == gr_pc = "return"
ReturnsOverloaded == Returning /\ gr_value = <<OVERLOADED>>

C13_State ==
    /\ AttemptsMade <= 3
    /\ attempt \in 0..2
    /\ Len(slept) <= 2
    /\ \A i \in 1..Len(slept) :
          /\ gr_events[i] \in {"503", "empty"}
          /\ gr_events[i] = "503" => slept[i] = DelayAfterUnavailable[i]
    /\ Returning =>
          (gr_value = <<OVERLOADED>>
              <=> (AttemptsMade = 3 /\ gr_events[3] = "503"))
    /\ ReturnsOverloaded => \A i \in 1..2 : gr_events[i] \in {"503", "empty"}

C13_Steps ==
    \A event \in OnlineEvents :
        (GrAttempt(event) /\ outcome_of(event) = "reply") =>
            /\ gr_pc' = "return"
            /\ gr_value' = strip(event.text)
            /\ gr_value' # <<>>
            /\ \A i \in 1..Len(gr_events) : gr_events[i] # "reply"
            /\ slept' = slept

C13_RetriesWithBackoff == []C13_State /\ [][C13_Steps]_vars

C13_Witness ==
    /\ ReturnsOverloaded
    /\ gr_events = <<"503", "503", "503">>
    /\ slept = <<1, 2>>

C13_OverloadedOnlyAfterAllUnavailable ==
    ReturnsOverloaded => \A i \in 1..3 : gr_events[i] = "503"
(***************************************************************************)
(* C14.  A query that ends with an error string of the provider ends with  *)
(* the value its last get_response call returned, and that value has one   *)
(* of these causes: the API key is missing; the third hosted attempt       *)
(* answered with an empty text or reported 503; a hosted attempt raised    *)
(* an exception that is neither 503 nor a network error; the local model   *)
(* failed.  The apology for an empty response follows two empty values in  *)
(* a row, the pipeline error follows get_response raising.  No step of a   *)
(* tool round ends the query, whether its tools failed or not.             *)
(***************************************************************************)
ProviderErrorStrings ==
    {NO_API_KEY, NO_RESPONSE, OVERLOADED, WENT_WRONG, OFFLINE_UNAVAILABLE}
Done == pc = "done"
EndsWith(message) == Done /\ returned = <<message>>
EndsWithProviderError == \E message \in ProviderErrorStrings : EndsWith(message)
LastEvent == gr_events[Len(gr_events)]
SomeToolFailed ==
    \E i \in 1..Len(tool_execution_log) : ~tool_execution_log[i].success

HostedPathFailed ==
    \/ gr_events = <<"local error">>
    \/ \E i \in 1..Len(gr_events) : gr_events[i] \in {"503", "network", "error"}
BothPathsFailed ==
    /\ gr_events # <<>>
    /\ LastEvent = "local error"
    /\ HostedPathFailed

C14_Causes ==
    /\ EndsWithProviderError => gr_value = returned
    /\ EndsWith(NO_API_KEY) => (online /\ gr_events = <<>>)
    /\ EndsWith(NO_RESPONSE) => (Len(gr_events) = 3 /\ LastEvent = "empty")
    /\ EndsWith(OVERLOADED) => (Len(gr_events) = 3 /\ LastEvent = "503")
    /\ EndsWith(WENT_WRONG) => (gr_events # <<>> /\ LastEvent = "error")
    /\ EndsWith(OFFLINE_UNAVAILABLE) =>
          (~online /\ gr_events # <<>> /\ LastEvent = "local error")
    /\ EndsWith(APOLOGY_EMPTY) => (gr_value = <<>> /\ provider_calls >= 2)
    /\ (Done /\ returned # <<>> /\ returned[1] = PIPELINE_ERROR) =>
          returned = <<PIPELINE_ERROR, IMPORT_ERROR>>

C14_ToolRoundGoesOn ==
    /\ pc = "cycle" => pc' \in {"cycle", "cycle_return"}
    /\ (pc = "cycle_return" /\ execution_results # <<>>) =>
          (pc' \in {"await_model", "forced_final"} /\ returned' = returned)
    /\ pc' = "raised" => exc' = IMPORT_ERROR

C14_TerminalErrorCauses == []C14_Causes /\ [][C14_ToolRoundGoesOn]_vars

C14_Witness ==
    /\ EndsWith(OFFLINE_UNAVAILABLE)
    /\ gr_events = <<"network", "local error">>
    /\ tool_cycle_count = 1
    /\ SomeToolFailed

C14_ErrorOnlyIfBothPathsFailed ==
    (EndsWithProviderError \/ EndsWith(APOLOGY_EMPTY)) => BothPathsFailed
(***************************************************************************)
(* C15.  The value a query returns never holds the text of an exception    *)
(* that was raised inside the driver: a failure is reported by one of the  *)
(* fixed messages alone.                                                   *)
(***************************************************************************)
ExceptionTexts == {IMPORT_ERROR, "tool exception", "ValueError", "NameError"}
HoldsExceptionText(value) ==
    \E i \in 1..Len(value) : value[i] \in ExceptionTexts

C15_NoExceptionTextReturned == Done => ~HoldsExceptionText(returned)
(***************************************************************************)
(* C16.  From the INIT step of a query on, also after the conversation     *)
(* was cleared, after the cached prompt was rebuilt and after a            *)
(* truncation, the conversation is not empty, its first turn is the        *)
(* system turn holding the cached system prompt, and no other turn holds   *)
(* a system prompt: the INIT step replaces the first turn of a             *)
(* conversation and appends the query, and lengthens an empty              *)
(* conversation by the system turn and the query.                          *)
(***************************************************************************)
HoldsPrompt(turn) ==
    /\ turn.role = "system"
    /\ Len(turn.content) = 1
    /\ turn.content[1] \in SessionPrompts
PromptTurns(history) == {i \in 1..Len(history) : HoldsPrompt(history[i])}
QueryRunning ==
    pc \in {"await_model", "retry", "process", "cycle", "cycle_return",
            "forced_final", "exhausted"}
QueryStarts == pc = "idle" /\ pc' \notin {"idle", "done"}

C16_State ==
    /\ QueryRunning => GLOBAL_CONVERSATION_HISTORY # <<>>
    /\ GLOBAL_CONVERSATION_HISTORY # <<>> =>
          /\ GLOBAL_CONVERSATION_HISTORY[1].role = "system"
          /\ GLOBAL_CONVERSATION_HISTORY[1].content = <<cached_prompt>>
          /\ PromptTurns(GLOBAL_CONVERSATION_HISTORY) = {1}

C16_Steps ==
    /\ QueryStarts =>
          /\ Len(GLOBAL_CONVERSATION_HISTORY') =
                (IF GLOBAL_CONVERSATION_HISTORY = <<>> THEN 1
                 ELSE Len(GLOBAL_CONVERSATION_HISTORY)) + 1
          /\ GLOBAL_CONVERSATION_HISTORY'[Len(GLOBAL_CONVERSATION_HISTORY')].role = "user"
          /\ \A i \in 2..Len(GLOBAL_CONVERSATION_HISTORY) :
                GLOBAL_CONVERSATION_HISTORY'[i] = GLOBAL_CONVERSATION_HISTORY[i]
    /\ QueryRunning =>
          /\ cached_prompt' = cached_prompt
          /\ GLOBAL_CONVERSATION_HISTORY'[1] = GLOBAL_CONVERSATION_HISTORY[1]

C16_SystemTurnFirst == []C16_State /\ [][C16_Steps]_vars

C16_Witness ==
    /\ pc = "await_model"
    /\ tool_cycle_count = 1
    /\ Len(GLOBAL_CONVERSATION_HISTORY) = HISTORY_LIMIT
    /\ GLOBAL_CONVERSATION_HISTORY[2].role = "system"
    /\ GLOBAL_CONVERSATION_HISTORY[1].content = <<"system prompt, offline">>
(***************************************************************************)
(* C17.  The turn sequence handed to the provider, at the head of the      *)
(* loop, at the retry and at the forced final call, never has more than    *)
(* HISTORY_LIMIT turns.                                                    *)
(***************************************************************************)
ProviderCalled == pc \in {"await_model", "retry", "forced_final"}

C17_ProviderSeesAtMostLimit ==
    ProviderCalled => Len(GLOBAL_CONVERSATION_HISTORY) <= HISTORY_LIMIT
(***************************************************************************)
(* C18.  Every candidate a cycle has processed, valid or not, has its one  *)
(* outcome in tool_execution_log: on a fresh pipeline the log holds as     *)
(* many entries as the cycle has outcomes.                                 *)
(***************************************************************************)
C18_OneLogEntryPerCandidate ==
    InCycle => Len(tool_execution_log) = Len(execution_results)
(***************************************************************************)
(* C19.  validate_tool_call answers a text it has seen before from the     *)
(* cache: the verdict and the reason of the first call are returned again, *)
(* the cache is left as it is, and the set self.allowed_tools holds at that *)
(* moment plays no part; the verdict of a first call, valid or not, is the *)
(* one the cache keeps, and no entry of the cache is ever changed.         *)
(***************************************************************************)
SameVerdict(v, w) ==
    v.valid = w.valid /\ v.reason = w.reason /\ v.name = w.name
EntriesKept ==
    /\ Len(validation_cache') >= Len(validation_cache)
    /\ \A i \in 1..Len(validation_cache) :
          /\ validation_cache'[i][1] = validation_cache[i][1]
          /\ SameVerdict(validation_cache'[i][2], validation_cache[i][2])

C19_Steps ==
    /\ EntriesKept
    /\ \A code \in ValidatedCodes :
          ValidateCall(code) =>
              /\ in_cache(validation_cache', code)
              /\ SameVerdict(validation', cache_get(validation_cache', code))
              /\ in_cache(validation_cache, code) =>
                    /\ SameVerdict(validation', cache_get(validation_cache, code))
                    /\ validation_cache' = validation_cache
                    /\ pc' = "return_cached"

C19_CachedVerdictRepeats == [][C19_Steps]_vars

C19_Witness ==
    /\ pc = "return_cached"
    /\ ~validation.valid
    /\ validation.name = "evil"
    /\ "evil" \in self_allowed_tools
    /\ \E i \in 1..Len(validation_cache) :
          /\ validation_cache[i][1] = <<"get_weather('Paris')">>
          /\ validation_cache[i][2].valid
(***************************************************************************)
(* C20.  The candidates of a cycle are the trimmed bodies, empty ones left *)
(* out, of all fenced blocks of the response whose marker keyword is       *)
(* tool_code in any letter case, in the order of the response, up to the   *)
(* cap.                                                                    *)
(***************************************************************************)
MarkedBodies(text) ==
    SelectSeq(tool_pattern_findall(text), LAMBDA body : strip(body) # <<>>)

C20_EveryMarkedBlockExtracted ==
    InCycle => tool_calls = capped(MarkedBodies(ai_response), max_tools_per_cycle)
(***************************************************************************)
(* C21.  A verdict of validate_tool_call is valid only for a snippet that  *)
(* is one expression statement calling an allow-listed name with literal   *)
(* arguments: a snippet without a call, with several statements or with a  *)
(* non-literal argument is judged invalid.                                 *)
(***************************************************************************)
LastValidated == tool_calls[Len(execution_results)]
JustValidated == InCycle /\ execution_results # <<>>

C21_ValidOnlySingleLiteralCall ==
    (JustValidated /\ validation.valid) => SingleLiteralCall(LastValidated)

(* C22.  A cancel request raised while a query is being processed is       *)
(* observed between cycles: once the user has pressed Space while the      *)
(* pipeline works on the query, no further tool cycle is started and the   *)
(* narration of the answer is not started for that query.                  *)
CancelRequested == pressed_at >= 0
CycleStarts == pc = "process" /\ pc' = "cycle"
NarrationStarts == ~narrated /\ narrated'

C22_CancelStopsFurtherWork ==
    [][CancelRequested => ~(CycleStarts \/ NarrationStarts)]_vars

(* C23.  Within one query the tool callables are invoked at most           *)
(* max_tool_cycles * max_tools_per_cycle times, and the reply to the       *)
(* forced final request is never executed: from the forced final request   *)
(* on, no callable is invoked for the query.                               *)
C23_InvocationsBounded ==
    Len(invoked) <= max_tool_cycles * max_tools_per_cycle

C23_ForcedFinalNotExecuted ==
    pc \in {"forced_final", "done"} => invoked' = invoked

C23_InvocationBudget ==
    []C23_InvocationsBounded /\ [][C23_ForcedFinalNotExecuted]_vars

(* The budget is used up to the last invocation, and the forced final      *)
(* reply carried blocks, which were scrubbed and not run.                  *)
C23_Witness ==
    /\ Done
    /\ max_tool_cycles = MaxCyclesParam
    /\ max_tools_per_cycle = MaxToolsParam
    /\ Len(invoked) = MaxCyclesParam * MaxToolsParam
    /\ final_response # <<>>
    /\ final_response[1] = DISCLAIMER

(* C24.  handle_query_with_iterative_tools returns a text that is not      *)
(* empty on every path: the empty query, the ordinary final answer, the    *)
(* give-up after an empty retry, the forced final answer that is empty or  *)
(* holds nothing but blocks, and the exception caught by the driver.       *)
C24_ReturnsNonEmpty == Done => returned # <<>>

(* The forced final answer came back empty and the query returned the      *)
(* apology in its place.                                                   *)
C24_Witness ==
    /\ Done
    /\ max_tool_cycles > 0
    /\ tool_cycle_count = max_tool_cycles
    /\ provider_calls = max_tool_cycles + 1
    /\ final_response = <<>>
    /\ returned = <<APOLOGY_INCOMPLETE>>

(* C25.  Every provider call made while a query is handled, the forced     *)
(* final one included, is given a turn sequence that still holds the user  *)
(* turn of that query: the truncation never drops the current query.       *)
HoldsQueryTurn ==
    \E i \in DOMAIN GLOBAL_CONVERSATION_HISTORY :
        /\ GLOBAL_CONVERSATION_HISTORY[i].role = "user"
        /\ GLOBAL_CONVERSATION_HISTORY[i].content = <<"What time is it?">>

C25_QueryTurnSurvives == ProviderCalled => HoldsQueryTurn

(* C26.  The due callbacks are invoked at most once for every reminder and *)
(* every task the daemon holds, whatever the interleaving of the loop      *)
(* threads with the add, remove and acknowledge calls: no entry is handed  *)
(* to the callbacks twice.                                                 *)
C26_CallbacksAtMostOnce ==
    \A i, j \in DOMAIN fired_log : i # j => fired_log[i] # fired_log[j]

(* A reminder and a task have both fired while two loop threads are alive  *)
(* and checking.                                                           *)
Alive(t) == threads[t] \notin {"unborn", "ended"}

C26_Witness ==
    /\ Len(fired_log) = 2
    /\ \A t \in Threads : Alive(t)
    /\ \E i \in DOMAIN reminders : reminders[i].fired
    /\ \E i \in DOMAIN tasks : tasks[i].fired

(* C27.  Every reminder accepted by add_reminder, and neither removed nor  *)
(* acknowledged, has fired its callbacks some time after its due time has  *)
(* passed, as long as the daemon loop keeps running; reminders reloaded    *)
(* from the files after a restart included.                                *)
Pending(u) ==
    \E i \in DOMAIN reminders :
        /\ reminders[i].uid = u
        /\ ~reminders[i].acknowledged
        /\ now >= reminders[i].time

Fired(u) == \E i \in DOMAIN fired_log : fired_log[i] = u

C27_PendingReminderFires ==
    \A u \in 1..MaxAdds : Pending(u) ~> (Fired(u) \/ ~Pending(u))

(* C28.  Two reminders, and two tasks, held by the daemon at the same time *)
(* have distinct ids whatever the timing of the add calls, so a remove     *)
(* call takes at most one entry out of its list.                           *)
DistinctIds(entries) ==
    \A i, j \in DOMAIN entries : i # j => entries[i].id # entries[j].id

C28_IdsDistinct == DistinctIds(reminders) /\ DistinctIds(tasks)

C28_RemoveTakesAtMostOne ==
    [][/\ Len(reminders') >= Len(reminders) - 1
       /\ Len(tasks') >= Len(tasks) - 1]_vars

C28_DistinctIds == []C28_IdsDistinct /\ C28_RemoveTakesAtMostOne

(* C29.  After any sequence of start() and stop() calls at most one loop   *)
(* thread is performing due checks, and a loop that a stop() returning     *)
(* True has stopped performs no further check.                             *)
Checking(t) ==
    threads[t] \in {"reminders", "reminders_locked", "tasks", "tasks_locked"}

C29_AtMostOneChecking == Cardinality({t \in Threads : Checking(t)}) <= 1

C29_StoppedLoopChecksNoMore ==
    [][\A t \in stopped :
          ~(threads'[t] \in {"reminders_locked", "tasks_locked"}
            /\ threads'[t] # threads[t])]_vars

C29_OneLoopThread == []C29_AtMostOneChecking /\ C29_StoppedLoopChecksNoMore

(* C30.  The writes of the persisted files never overlap between threads:  *)
(* every execution of _save_state runs in a thread that holds the daemon   *)
(* lock, the one in stop() included, so no other thread is inside a due    *)
(* check at that moment.                                                   *)
C30_SavesUnderLock == last_save.held /\ ~last_save.busy

=============================================================================
